---------------------------- MODULE Spec2Model ----------------------------
(***************************************************************************)
(* Signup / OTP verification flow of the farming-advisory web client, its  *)
(* profile store (table user_profiles with the handle_new_user trigger)    *)
(* the phone normalisation of the OTP service, and the calls of the OTP    *)
(* service followed through its retry wrapper (specification SpecCall).    *)
(* Spec follows the signup flow; it does not follow the resend button or   *)
(* the one-second timer of the resend countdown, which SpecView follows    *)
(* from a staged form. SpecLogin follows the login page.                   *)
(*                                                                         *)
(* Strings are TLA+ strings; a character is a string of length 1.          *)
(* SQL NULL / JavaScript null and undefined are the value NULL.            *)
(* The client clock (new Date()) and the server clock (NOW()) are readings  *)
(* of one logical clock that never goes back.                              *)
(***************************************************************************)
EXTENDS Integers, Sequences, FiniteSets, TLC

VARIABLES
  \* ---- Signup page (src/src/pages/Signup.tsx)
  page,                 \* route shown: "signup" | "login" | "home" | "dashboard"
  formData,             \* Signup.formData (the fields of the form)
  signupIsLoading,      \* Signup.isLoading
  showOTPVerification,  \* Signup.showOTPVerification
  tempUserData,         \* Signup.tempUserData (in-memory staged data) or NULL
  localStorage,         \* localStorage['tempUserData'] (persisted staging record) or NULL
  toast,                \* title of the last toast shown
  \* ---- OTPVerification component (src/src/components/OTPVerification.tsx)
  selectedMethod,       \* "email" | "phone"
  otp,                  \* entered code
  isLoading,            \* OTPVerification.isLoading
  otpSent,              \* OTPVerification.otpSent
  countdown,            \* OTPVerification.countdown (seconds until a resend is offered)
  \* ---- the handler in flight (position and locals of the async callbacks)
  pc,                   \* "idle" or the call the handler is awaiting
  hForm,                \* handleSubmit: the submitted formData
  hData,                \* sendOTP / verifyOTP: the tempUserData prop captured by the closure
  hMethod,              \* sendOTP / verifyOTP: the selectedMethod captured by the closure
  hOrphan,              \* TRUE when the component that started the handler was unmounted
  hToken,               \* verifyOTP: verificationData.token while the verify call is awaited, or NULL
  verifyData,           \* verifyOTP: user id returned by the provider, or NULL
  updateError,          \* completeSignupAfterOTP: updateError
  attempt,              \* completeSignupAfterOTP: loop variable attempt
  profileError,         \* completeSignupAfterOTP: profileError
  payload,              \* completeSignupAfterOTP: the object of the last upsert() call
  delays,               \* completeSignupAfterOTP: the setTimeout delays (ms) of the retry loop
  \* ---- backend
  authUsers,            \* auth.users: user id -> [email, phone, encrypted_password, raw_user_meta_data]
  otpIssued,            \* identifiers holding an unconsumed one-time passcode
  user_profiles,        \* public.user_profiles: user id -> row
  clock,                \* logical time
  \* ---- OTP service called directly with a phone string (src/src/services/otpService.ts)
  phoneIn,              \* the phone string the caller starts from
  phoneArg,             \* the argument `phone` of the current call
  phoneOut,             \* outcome of the call: "none" | "sent" | "InvalidPhoneFormat"
  providerPhone,        \* the phone identifier handed to signInWithOtp, or NULL
  intent,               \* "none" | "signup" | "login"
  round,                \* how many times the output was fed back as input
  \* ---- one call of an otpService function, followed through retryNetworkRequest
  svcFn,                \* the function that runs: "none" | "sendEmailOTPForSignup" | ...
  svcResend,            \* TRUE when it was reached through resendOTPForSignup / resendOTPForLogin
  svcArg,               \* its argument: [type, identifier]
  svcPc,                \* "idle" | "provider" (call awaited) | "wait" (backoff) | "settled"
  retries,              \* retryNetworkRequest: parameter `retries` of the running invocation
  providerCalls,        \* the calls made to supabase.auth during this call, in order
  answers,              \* the `error` of the provider's answer to each of them (NoError: none)
  waits,                \* the arguments of wait(ms) during this call, in order
  svcError,             \* the error the call ended with
  svcOutcome,           \* "none" | "resolved" | "thrown" | "returned" ({data: null, error})
  \* ---- OTPVerification component: the resend button and the countdown timer
  isResending,          \* OTPVerification.isResending
  rpc,                  \* position of the resendOTP handler: "idle" | "resendOTP" (call awaited)
  rMethod,              \* resendOTP: selectedMethod as captured by its closure
  cooling,              \* history: a dispatch succeeded and the countdown it started has
                        \* not yet been taken to 0 by the timer
  \* ---- Login page (src/src/pages/Signup.tsx, component Login)
  emailOrPhone,         \* Login.emailOrPhone
  password,             \* Login.password
  loginIsLoading,       \* Login.isLoading
  signInPayload         \* authService.signIn: the object handed to signInWithPassword

vars == << page, formData, signupIsLoading, showOTPVerification, tempUserData, localStorage,
           toast, selectedMethod, otp, isLoading, otpSent, countdown, pc, hForm, hData,
           hMethod, hOrphan, hToken, verifyData, updateError, attempt, profileError,
           payload, delays, authUsers, otpIssued, user_profiles, clock,
           phoneIn, phoneArg, phoneOut, providerPhone, intent, round,
           svcFn, svcResend, svcArg, svcPc, retries, providerCalls, answers, waits,
           svcError, svcOutcome,
           isResending, rpc, rMethod, cooling,
           emailOrPhone, password, loginIsLoading, signInPayload >>

flowVars == << page, formData, signupIsLoading, showOTPVerification, tempUserData, localStorage,
               toast, selectedMethod, otp, isLoading, otpSent, countdown, pc, hForm, hData,
               hMethod, hOrphan, hToken, verifyData, updateError, attempt, profileError,
               payload, delays, authUsers, otpIssued, user_profiles, clock >>

phoneVars == << phoneIn, phoneArg, phoneOut, providerPhone, intent, round >>

callVars == << svcFn, svcResend, svcArg, svcPc, retries, providerCalls, answers, waits,
               svcError, svcOutcome >>

viewVars == << isResending, rpc, rMethod, cooling >>

loginVars == << emailOrPhone, password, loginIsLoading, signInPayload >>

NULL == "<null>"

-----------------------------------------------------------------------------
(* Bounds of the model *)

\* latest reading of the logical clock
MaxClock == 1
\* times a normalised phone is fed back into the normalisation
MaxRounds == 1

-----------------------------------------------------------------------------
(* Strings *)

Digits == {"0", "1", "2", "3", "4", "5", "6", "7", "8", "9"}
MobileLead == {"6", "7", "8", "9"}
Letters == {"a", "b", "c", "d", "e", "f", "g", "h", "i", "j", "k", "l", "m",
            "n", "o", "p", "q", "r", "s", "t", "u", "v", "w", "x", "y", "z",
            "A", "B", "C", "D", "E", "F", "G", "H", "I", "J", "K", "L", "M",
            "N", "O", "P", "Q", "R", "S", "T", "U", "V", "W", "X", "Y", "Z"}
Whitespace == {" "}

CharAt(s, i) == SubSeq(s, i, i)

AllIn(s, set) == \A i \in 1..Len(s) : CharAt(s, i) \in set

startsWith(s, p) == Len(s) >= Len(p) /\ SubSeq(s, 1, Len(p)) = p

\* s.replace(/\D/g, '')
RECURSIVE stripNonDigits(_)
stripNonDigits(s) ==
  IF s = "" THEN ""
  ELSE (IF CharAt(s, 1) \in Digits THEN CharAt(s, 1) ELSE "") \o stripNonDigits(Tail(s))

\* s.slice(-n)
sliceLast(s, n) == IF Len(s) <= n THEN s ELSE SubSeq(s, Len(s) - n + 1, Len(s))

\* s.slice(0, n)
sliceFirst(s, n) == IF Len(s) <= n THEN s ELSE SubSeq(s, 1, n)

\* s.trim()
RECURSIVE trimLeft(_)
trimLeft(s) == IF s # "" /\ CharAt(s, 1) \in Whitespace THEN trimLeft(Tail(s)) ELSE s
RECURSIVE trimRight(_)
trimRight(s) ==
  IF s # "" /\ CharAt(s, Len(s)) \in Whitespace THEN trimRight(SubSeq(s, 1, Len(s) - 1)) ELSE s
trim(s) == trimRight(trimLeft(s))

\* /^[6-9]\d{9}$/
IsMobile10(s) == Len(s) = 10 /\ CharAt(s, 1) \in MobileLead /\ AllIn(s, Digits)

-----------------------------------------------------------------------------
(* Profile store: table public.user_profiles, its constraints and triggers *)

\* a phone_number accepted by CHECK (phone_number ~ '^\+\d{10,15}$')
PhoneFormatOk(p) ==
  /\ Len(p) >= 11
  /\ Len(p) <= 16
  /\ CharAt(p, 1) = "+"
  /\ AllIn(Tail(p), Digits)

\* an email accepted by CHECK (email ~ '^[a-zA-Z0-9._%+-]+@[a-zA-Z0-9.-]+\.[a-zA-Z]{2,}$')
EmailFormatOk(e) ==
  \E at \in 2..(Len(e) - 4) : \E dot \in (at + 2)..(Len(e) - 2) :
    /\ CharAt(e, at) = "@"
    /\ CharAt(e, dot) = "."
    /\ AllIn(SubSeq(e, 1, at - 1), Letters \cup Digits \cup {".", "_", "%", "+", "-"})
    /\ AllIn(SubSeq(e, at + 1, dot - 1), Letters \cup Digits \cup {".", "-"})
    /\ AllIn(SubSeq(e, dot + 1, Len(e)), Letters)

\* split_part(s, '@', 1)
RECURSIVE split_part_1(_)
split_part_1(s) ==
  IF s = "" \/ CharAt(s, 1) = "@" THEN "" ELSE CharAt(s, 1) \o split_part_1(Tail(s))

COALESCE2(a, b) == IF a # NULL THEN a ELSE b
COALESCE3(a, b, c) == COALESCE2(a, COALESCE2(b, c))

\* the row's violation of the table's constraints, in the order PostgreSQL
\* checks them: NOT NULL, CHECK, then the unique index on phone_number
Violation(tbl, id, row) ==
  IF row.email = NULL \/ row.full_name = NULL THEN "not_null_violation"
  ELSE IF row.phone_number # NULL /\ ~PhoneFormatOk(row.phone_number) THEN "check_violation"
  ELSE IF ~EmailFormatOk(row.email) THEN "check_violation"
  ELSE IF row.phone_number # NULL
          /\ \E o \in DOMAIN tbl : o # id /\ tbl[o].phone_number = row.phone_number
       THEN "unique_violation"
  ELSE "none"

\* BEFORE UPDATE trigger user_profiles_updated_at
handle_updated_at(row, now) == [row EXCEPT !.updated_at = now]

\* handle_new_user without the WHEN OTHERS handler: an error of the first
\* insert that is no unique violation leaves the function
handle_new_user_noOthersHandler(tbl, new, now) ==
  IF new.id \in DOMAIN tbl THEN [raised |-> FALSE, tbl |-> tbl]
  ELSE
    LET meta == new.raw_user_meta_data
        user_email == COALESCE2(new.email, meta.email)
        phone0 == COALESCE3(new.phone, meta.phone, meta.phone_number)
        user_name == COALESCE3(meta.full_name, meta.name,
                               IF user_email # NULL THEN split_part_1(user_email) ELSE "User")
        user_product_id == COALESCE2(meta.product_id, "DEMO-001")
        user_phone == IF phone0 # NULL /\ ~PhoneFormatOk(phone0) THEN NULL ELSE phone0
        row == [full_name |-> user_name, email |-> user_email, phone_number |-> user_phone,
                product_id |-> user_product_id, created_at |-> now, updated_at |-> now]
        rowNoPhone == [row EXCEPT !.phone_number = NULL]
        v == Violation(tbl, new.id, row)
    IN IF v = "none" THEN [raised |-> FALSE, tbl |-> tbl @@ (new.id :> row)]
       ELSE IF v = "unique_violation"
         THEN IF Violation(tbl, new.id, rowNoPhone) = "none"
                THEN [raised |-> FALSE, tbl |-> tbl @@ (new.id :> rowNoPhone)]
                ELSE [raised |-> TRUE, tbl |-> tbl]
       ELSE [raised |-> TRUE, tbl |-> tbl]

\* AFTER INSERT ON auth.users trigger; `new` is the inserted user (NEW).
\* Result: the table afterwards, and whether the function raised.
handle_new_user(tbl, new, now) ==
  IF new.id \in DOMAIN tbl THEN [raised |-> FALSE, tbl |-> tbl]
  ELSE
    LET meta == new.raw_user_meta_data
        user_email == COALESCE2(new.email, meta.email)
        phone0 == COALESCE3(new.phone, meta.phone, meta.phone_number)
        user_name == COALESCE3(meta.full_name, meta.name,
                               IF user_email # NULL THEN split_part_1(user_email) ELSE "User")
        user_product_id == COALESCE2(meta.product_id, "DEMO-001")
        user_phone == IF phone0 # NULL /\ ~PhoneFormatOk(phone0) THEN NULL ELSE phone0
        row == [full_name |-> user_name, email |-> user_email, phone_number |-> user_phone,
                product_id |-> user_product_id, created_at |-> now, updated_at |-> now]
        rowNoPhone == [row EXCEPT !.phone_number = NULL]
        v == Violation(tbl, new.id, row)
    IN IF v = "none" THEN [raised |-> FALSE, tbl |-> tbl @@ (new.id :> row)]
       ELSE IF v = "unique_violation"
         THEN IF Violation(tbl, new.id, rowNoPhone) = "none"
                THEN [raised |-> FALSE, tbl |-> tbl @@ (new.id :> rowNoPhone)]
                ELSE [raised |-> TRUE, tbl |-> tbl]
       ELSE [raised |-> FALSE, tbl |-> tbl]

\* the object completeSignupAfterOTP hands to upsert(); product_id is not part of it
UpsertPayload(data, now) ==
  [full_name |-> data.fullName,
   email |-> data.email,
   phone_number |-> IF startsWith(data.mobileNumber, "+") THEN data.mobileNumber
                    ELSE "+91" \o data.mobileNumber,
   created_at |-> now,
   updated_at |-> now]

\* UpsertRow with the row replaced as a whole (INSERT OR REPLACE): the columns
\* missing from the payload are lost
UpsertRow_replaceRow(tbl, id, p, now) ==
  [full_name |-> p.full_name, email |-> p.email, phone_number |-> p.phone_number,
   product_id |-> NULL, created_at |-> p.created_at,
   updated_at |-> IF id \in DOMAIN tbl THEN now ELSE p.updated_at]

\* the row INSERT ... ON CONFLICT (id) DO UPDATE proposes: the payload's columns
\* replace the existing row's, the other columns keep their value (NULL on insert)
UpsertRow(tbl, id, p, now) ==
  IF id \in DOMAIN tbl
    THEN handle_updated_at([tbl[id] EXCEPT !.full_name = p.full_name, !.email = p.email,
                                           !.phone_number = p.phone_number,
                                           !.created_at = p.created_at,
                                           !.updated_at = p.updated_at], now)
    ELSE [full_name |-> p.full_name, email |-> p.email, phone_number |-> p.phone_number,
          product_id |-> NULL, created_at |-> p.created_at, updated_at |-> p.updated_at]

\* supabase.from('user_profiles').upsert(p, {onConflict: 'id'}):
\* the error returned (NULL when none) and the table afterwards
upsert(tbl, id, p, now) ==
  LET row == UpsertRow(tbl, id, p, now)
      v == Violation(tbl, id, row)
  IN IF v = "none"
       THEN [error |-> NULL, tbl |-> [o \in DOMAIN tbl \cup {id} |-> IF o = id THEN row ELSE tbl[o]]]
       ELSE [error |-> v, tbl |-> tbl]

-----------------------------------------------------------------------------
(* Signup page: form validation, product validation, staging *)

\* what the user typed into the form (mobileNumber before handleChange's filter)
TypedForms ==
  { [productId |-> "AGRICURE-001", name |-> "Asha", mobileNumber |-> "78770 59117",
     email |-> "asha@farm.in", password |-> "secret1", confirmPassword |-> "secret1"],
    [productId |-> "BAD-999", name |-> "Omar", mobileNumber |-> "9876543210",
     email |-> "omar@farm.in", password |-> "secret4", confirmPassword |-> "secret4"],
    [productId |-> " ", name |-> "Uma", mobileNumber |-> "98765",
     email |-> "uma@farm", password |-> "abc", confirmPassword |-> "abd"],
    [productId |-> "AGRICURE-001", name |-> "Asha", mobileNumber |-> "78770 59117",
     email |-> "asha@farm.in", password |-> "secret1", confirmPassword |-> "secret2"],
    [productId |-> "AGRICURE-002", name |-> "Ravi", mobileNumber |-> "98765-4321",
     email |-> "ravi@farm.in", password |-> "secret5", confirmPassword |-> "secret5"],
    [productId |-> "RETIRED-001", name |-> "Omar", mobileNumber |-> "9876543210",
     email |-> "omar@farm.in", password |-> "secret4", confirmPassword |-> "secret4"] }

\* useState({productId: "", name: "", ...})
EmptyForm ==
  [productId |-> "", name |-> "", mobileNumber |-> "", email |-> "",
   password |-> "", confirmPassword |-> ""]

\* handleChange: the mobile number keeps its digits only, 10 at most
handleChange(t) == [t EXCEPT !.mobileNumber = sliceFirst(stripNonDigits(t.mobileNumber), 10)]

\* /^[^\s@]+@[^\s@]+\.[^\s@]+$/
emailRegex(e) ==
  \E at \in 2..(Len(e) - 3) : \E dot \in (at + 2)..(Len(e) - 1) :
    /\ CharAt(e, at) = "@"
    /\ CharAt(e, dot) = "."
    /\ \A i \in 1..Len(e) : i # at => CharAt(e, i) \notin (Whitespace \cup {"@"})

Rule(violated, message) == IF violated THEN << message >> ELSE << >>

\* validateForm of a page that does not compare the two password fields
validateForm_noConfirmation(form) ==
  Rule(trim(form.productId) = "", "Product ID is required")
  \o Rule(trim(form.name) = "", "Full name is required")
  \o Rule(trim(form.email) = "", "Email is required")
  \o Rule(trim(form.mobileNumber) = "", "Mobile number is required")
  \o Rule(Len(form.mobileNumber) # 10, "Mobile number must be 10 digits")
  \o Rule(form.password = "", "Password is required")
  \o Rule(Len(form.password) < 6, "Password must be at least 6 characters")
  \o Rule(form.email # "" /\ ~emailRegex(form.email), "Please enter a valid email address")

\* the ordered list of violated rules
validateForm(form) ==
  Rule(trim(form.productId) = "", "Product ID is required")
  \o Rule(trim(form.name) = "", "Full name is required")
  \o Rule(trim(form.email) = "", "Email is required")
  \o Rule(trim(form.mobileNumber) = "", "Mobile number is required")
  \o Rule(Len(form.mobileNumber) # 10, "Mobile number must be 10 digits")
  \o Rule(form.password = "", "Password is required")
  \o Rule(Len(form.password) < 6, "Password must be at least 6 characters")
  \o Rule(form.password # form.confirmPassword, "Passwords do not match")
  \o Rule(form.email # "" /\ ~emailRegex(form.email), "Please enter a valid email address")

\* table products: the rows with is_active = true
ActiveProducts == {"AGRICURE-001", "AGRICURE-002", "AGRICURE-003", "DEMO-001"}

\* table products: the rows with is_active = false
InactiveProducts == {"RETIRED-001"}

\* how the select on products ends: "answered" (the row, or the no-row error of
\* .single()), "error" (the query failed), "thrown" (the call threw)
QueryOutcomes == {"answered", "error", "thrown"}

\* validateProductId of a service whose select does not filter on is_active
validateProductId_anyRow(productId, query) ==
  query = "answered" /\ productId \in ActiveProducts \cup InactiveProducts

\* authService.validateProductId: isValid = !!data && !error, false when it threw
validateProductId(productId, query) ==
  query = "answered" /\ productId \in ActiveProducts

\* the staging record handleSubmit builds
TempData(form) ==
  [productId |-> form.productId,
   fullName |-> form.name,
   mobileNumber |-> IF startsWith(form.mobileNumber, "+") THEN form.mobileNumber
                    ELSE "+91" \o form.mobileNumber,
   email |-> form.email,
   password |-> form.password]

Toast(title, description) == [title |-> title, description |-> description]
NoToast == Toast("", "")

\* state of a freshly mounted OTPVerification component
OtpViewReset ==
  /\ selectedMethod' = "email"
  /\ otp' = ""
  /\ isLoading' = FALSE
  /\ otpSent' = FALSE
  /\ countdown' = 0

\* state of a freshly mounted Signup page
SignupReset ==
  /\ formData' = EmptyForm
  /\ signupIsLoading' = FALSE
  /\ showOTPVerification' = FALSE
  /\ tempUserData' = NULL

handlerLocals == << hData, hMethod, hOrphan, hToken, verifyData, updateError, attempt,
                    profileError, payload, delays >>

\* the locals of a handler that ended in its catch or without navigating; the
\* handler that completes the signup leaves them as the record of the finished run
LocalsGone ==
  /\ hData' = NULL
  /\ hMethod' = "email"
  /\ hOrphan' = FALSE
  /\ hToken' = NULL
  /\ verifyData' = NULL
  /\ updateError' = NULL
  /\ attempt' = 0
  /\ profileError' = NULL
  /\ payload' = NULL
  /\ delays' = << >>

otpView == << selectedMethod, otp, isLoading, otpSent, countdown >>
backend == << authUsers, otpIssued, user_profiles >>

\* the user fills the form in with t (handleChange on each field) and submits it:
\* handleSubmit up to its first await
HandleSubmit(t) ==
  /\ page = "signup" /\ ~showOTPVerification /\ ~signupIsLoading /\ pc = "idle"
  /\ formData' = handleChange(t)
  /\ LET validationErrors == validateForm(formData')
     IN IF Len(validationErrors) > 0
          THEN /\ toast' = Toast("common.error", validationErrors[1])
               /\ UNCHANGED << signupIsLoading, pc, hForm >>
          ELSE /\ signupIsLoading' = TRUE
               /\ pc' = "validateProductId"
               /\ hForm' = formData'
               /\ UNCHANGED toast
  /\ UNCHANGED << page, showOTPVerification, tempUserData, localStorage, otpView,
                  handlerLocals, backend, clock, phoneVars, viewVars, loginVars, callVars >>

\* handleSubmit after validateProductId resolved; setItemThrows: localStorage.setItem
\* threw inside storeTempUserData, whose result handleSubmit does not read
ValidateProductIdResponse(query, setItemThrows) ==
  /\ pc = "validateProductId"
  /\ IF validateProductId(hForm.productId, query)
       THEN /\ localStorage' = IF setItemThrows THEN localStorage ELSE TempData(hForm)
            /\ tempUserData' = TempData(hForm)
            /\ showOTPVerification' = TRUE
            /\ toast' = Toast("Ready for Verification",
                              "Please choose your verification method to complete registration")
            /\ OtpViewReset
       ELSE /\ toast' = Toast("auth.signupFailed",
                              "Invalid Product ID. Please check your Product ID and try again.")
            /\ UNCHANGED << localStorage, tempUserData, showOTPVerification, otpView >>
  /\ signupIsLoading' = FALSE
  /\ pc' = "idle"
  /\ hForm' = NULL
  /\ UNCHANGED << page, formData, handlerLocals, backend, clock,
                  phoneVars, viewVars, loginVars, callVars >>

\* handleBackFromOTP, the OTP view's back button
HandleBackFromOTP ==
  /\ page = "signup" /\ showOTPVerification
  /\ showOTPVerification' = FALSE
  /\ tempUserData' = NULL
  /\ localStorage' = NULL
  /\ OtpViewReset
  /\ hOrphan' = (pc # "idle")
  /\ UNCHANGED << page, formData, signupIsLoading, toast, pc, hForm, hData, hMethod, hToken,
                  verifyData, updateError, attempt, profileError, payload, delays, backend,
                  clock, phoneVars, viewVars, loginVars, callVars >>

\* <Link to="/"> above the OTP view: the router leaves the signup page, the Signup
\* page and the OTP view unmount; nothing clears the staging record
HomeLink ==
  /\ page = "signup" /\ showOTPVerification
  /\ page' = "home"
  /\ SignupReset
  /\ OtpViewReset
  /\ hOrphan' = (pc # "idle")
  /\ UNCHANGED << localStorage, toast, pc, hForm, hData, hMethod, hToken, verifyData,
                  updateError, attempt, profileError, payload, delays, backend, clock,
                  phoneVars, viewVars, loginVars, callVars >>

-----------------------------------------------------------------------------
(* OTP service: phone normalisation *)

\* /^\+91[6-9]\d{9}$/
isValidFormattedPhoneNumber(phone) ==
  Len(phone) = 13 /\ startsWith(phone, "+91") /\ IsMobile10(SubSeq(phone, 4, 13))

\* /^91[6-9]\d{9}$/
Is91Mobile(cleanPhone) ==
  Len(cleanPhone) = 12 /\ startsWith(cleanPhone, "91") /\ IsMobile10(SubSeq(cleanPhone, 3, 12))

\* formatPhoneForSignup prefixing the digits whatever the input starts with
formatPhoneForSignup_prefixAlways(phone) ==
  LET formattedPhone == "+91" \o stripNonDigits(phone)
  IN IF Len(formattedPhone) >= 13 THEN formattedPhone ELSE NULL

\* formatPhoneForSignup without the final isValidFormattedPhoneNumber check
formatPhoneForSignup_noFinalCheck(phone) ==
  LET cleanPhone == stripNonDigits(phone)
      extractedDigits == sliceLast(cleanPhone, 10)
  IN IF Len(cleanPhone) = 10 /\ CharAt(cleanPhone, 1) \in MobileLead
       THEN "+91" \o cleanPhone
     ELSE IF Len(cleanPhone) = 12 /\ startsWith(cleanPhone, "91")
       THEN "+" \o cleanPhone
     ELSE IF Len(cleanPhone) = 13 /\ startsWith(cleanPhone, "91")
       THEN "+" \o cleanPhone
     ELSE IF ~startsWith(phone, "+91")
       THEN (IF IsMobile10(extractedDigits) THEN "+91" \o extractedDigits ELSE NULL)
     ELSE phone

\* sendPhoneOTPForSignup, before the provider call: the formatted phone,
\* or NULL when it throws 'Invalid phone number format...'
formatPhoneForSignup(phone) ==
  LET cleanPhone == stripNonDigits(phone)
      extractedDigits == sliceLast(cleanPhone, 10)
      formattedPhone ==
        IF Len(cleanPhone) = 10 /\ CharAt(cleanPhone, 1) \in MobileLead
          THEN "+91" \o cleanPhone
        ELSE IF Len(cleanPhone) = 12 /\ startsWith(cleanPhone, "91")
          THEN "+" \o cleanPhone
        ELSE IF Len(cleanPhone) = 13 /\ startsWith(cleanPhone, "91")
          THEN "+" \o cleanPhone
        ELSE IF ~startsWith(phone, "+91")
          THEN (IF IsMobile10(extractedDigits) THEN "+91" \o extractedDigits ELSE NULL)
        ELSE phone
  IN IF formattedPhone # NULL /\ isValidFormattedPhoneNumber(formattedPhone)
       THEN formattedPhone
       ELSE NULL

\* otpService.formatPhoneNumber(phone, '+91')
formatPhoneNumber(phone) ==
  IF startsWith(phone, "+91") THEN phone ELSE "+91" \o stripNonDigits(phone)

\* otpService.isValidPhoneNumber
isValidPhoneNumber(phone) ==
  LET cleanPhone == stripNonDigits(phone)
  IN IF Len(cleanPhone) = 10 THEN IsMobile10(cleanPhone)
     ELSE IF Len(cleanPhone) = 12 /\ startsWith(cleanPhone, "91") THEN Is91Mobile(cleanPhone)
     ELSE IF Len(cleanPhone) = 13 /\ startsWith(cleanPhone, "91") THEN Is91Mobile(cleanPhone)
     ELSE FALSE

\* sendPhoneOTPForLogin, before the provider call: the phone handed to the
\* provider, or NULL when it throws 'Invalid phone number format...'
formatPhoneForLogin(phone) ==
  IF isValidPhoneNumber(phone) THEN formatPhoneNumber(phone) ELSE NULL

-----------------------------------------------------------------------------
(* Identity provider (auth.users, one-time passcodes) *)

\* the readings NOW() / new Date() can give at the next write: the clock does not go back
Times == { t \in clock .. clock + 1 : t <= MaxClock }

\* raw_user_meta_data of a user created by signInWithOtp: the options.data of
\* sendEmailOTPForSignup / sendPhoneOTPForSignup carry none of the keys the trigger reads
OtpSignupMeta ==
  [email |-> NULL, phone |-> NULL, phone_number |-> NULL,
   full_name |-> NULL, name |-> NULL, product_id |-> NULL]

\* the id the provider gives the user it creates for an identifier (gen_random_uuid():
\* an opaque value, distinct for distinct users)
uid(identifier) == "uid:" \o identifier

NewUser(id, channel, identifier) ==
  [id |-> id,
   email |-> IF channel = "email" THEN identifier ELSE NULL,
   phone |-> IF channel = "phone" THEN identifier ELSE NULL,
   encrypted_password |-> NULL,
   raw_user_meta_data |-> OtpSignupMeta]

UserOf(channel, identifier) ==
  { u \in DOMAIN authUsers :
      IF channel = "email" THEN authUsers[u].email = identifier
      ELSE authUsers[u].phone = identifier }

-----------------------------------------------------------------------------
(* OTPVerification component *)

\* tempUserData.mobileNumber.startsWith('+') ? mobileNumber : `+91${mobileNumber}`
ComponentPhone(data) ==
  IF startsWith(data.mobileNumber, "+") THEN data.mobileNumber ELSE "+91" \o data.mobileNumber

\* what the user types or pastes into the code field
TypedCodes == {"123456", "12a45", "1234567"}

MethodName(m) == IF m = "email" THEN "email" ELSE "mobile number"

\* the method selection buttons
SelectMethod(m) ==
  /\ page = "signup" /\ showOTPVerification /\ ~otpSent
  /\ selectedMethod' = m
  /\ UNCHANGED << page, formData, signupIsLoading, showOTPVerification, tempUserData, localStorage,
                  toast, otp, isLoading, otpSent, countdown, pc, hForm, handlerLocals, backend,
                  clock, phoneVars, viewVars, loginVars, callVars >>

\* EnhancedOTPInput.handleChange: digits only, 6 at most
EnterOtp(typed) ==
  /\ page = "signup" /\ showOTPVerification /\ otpSent
  /\ otp' = sliceFirst(stripNonDigits(typed), 6)
  /\ UNCHANGED << page, formData, signupIsLoading, showOTPVerification, tempUserData, localStorage,
                  toast, selectedMethod, isLoading, otpSent, countdown, pc, hForm, handlerLocals,
                  backend, clock, phoneVars, viewVars, loginVars, callVars >>

\* ChangeMethod of a view that keeps the entered code
ChangeMethod_keepsCode ==
  /\ page = "signup" /\ showOTPVerification /\ otpSent
  /\ otpSent' = FALSE
  /\ UNCHANGED otp
  /\ countdown' = 0
  /\ UNCHANGED << page, formData, signupIsLoading, showOTPVerification, tempUserData, localStorage,
                  toast, selectedMethod, isLoading, pc, hForm, handlerLocals, backend,
                  clock, phoneVars, viewVars, loginVars, callVars >>

\* "Change verification method"
ChangeMethod ==
  /\ page = "signup" /\ showOTPVerification /\ otpSent
  /\ otpSent' = FALSE
  /\ otp' = ""
  /\ countdown' = 0
  /\ UNCHANGED << page, formData, signupIsLoading, showOTPVerification, tempUserData, localStorage,
                  toast, selectedMethod, isLoading, pc, hForm, handlerLocals, backend,
                  clock, phoneVars, viewVars, loginVars, callVars >>

\* sendOTP up to its await ("Send OTP" button, disabled while isLoading)
SendOTPClick ==
  /\ page = "signup" /\ showOTPVerification /\ ~otpSent /\ ~isLoading /\ pc = "idle"
  /\ isLoading' = TRUE
  /\ pc' = "sendOTP"
  /\ hData' = tempUserData
  /\ hMethod' = selectedMethod
  /\ hOrphan' = FALSE
  /\ UNCHANGED << page, formData, signupIsLoading, showOTPVerification, tempUserData, localStorage,
                  toast, selectedMethod, otp, otpSent, countdown, hForm, hToken, verifyData,
                  updateError, attempt, profileError, payload, delays, backend, clock,
                  phoneVars, viewVars, loginVars, callVars >>

\* SendOTPResponse of a component that shows the code field whatever the outcome
SendOTPResponse_sentAnyway(accepted, now) ==
  /\ pc = "sendOTP"
  /\ clock' = now
  /\ LET identifier == IF hMethod = "email" THEN hData.email
                       ELSE formatPhoneForSignup(ComponentPhone(hData))
         id == uid(identifier)
         new == NewUser(id, hMethod, identifier)
         trig == handle_new_user(user_profiles, new, now)
         creates == UserOf(hMethod, identifier) = {}
         ok == /\ identifier # NULL
               /\ accepted
               /\ creates => ~trig.raised
     IN IF ok
          THEN /\ authUsers' = IF creates THEN authUsers @@ (id :> new) ELSE authUsers
               /\ user_profiles' = IF creates THEN trig.tbl ELSE user_profiles
               /\ otpIssued' = otpIssued \cup {identifier}
               /\ otpSent' = IF hOrphan THEN otpSent ELSE TRUE
               /\ countdown' = IF hOrphan THEN countdown ELSE 60
               /\ cooling' = IF hOrphan THEN cooling ELSE TRUE
               /\ toast' = Toast("OTP Sent", "Verification code sent to your " \o MethodName(hMethod))
          ELSE /\ toast' = Toast("Failed to Send OTP",
                                 IF identifier = NULL
                                   THEN "Invalid phone number format. Please enter a valid 10-digit mobile number."
                                   ELSE "provider error")
               /\ otpSent' = IF hOrphan THEN otpSent ELSE TRUE
               /\ UNCHANGED << backend, countdown, cooling >>
  /\ isLoading' = IF hOrphan THEN isLoading ELSE FALSE
  /\ pc' = "idle"
  /\ LocalsGone
  /\ UNCHANGED << page, formData, signupIsLoading, showOTPVerification, tempUserData, localStorage,
                  selectedMethod, otp, hForm, phoneVars, isResending, rpc, rMethod, loginVars,
                  callVars >>

\* sendOTP after sendEmailOTPForSignup / sendPhoneOTPForSignup settled.
\* accepted: the provider accepted signInWithOtp({shouldCreateUser: true}); it
\* then inserts the user when the identifier is new, which fires handle_new_user
SendOTPResponse(accepted, now) ==
  /\ pc = "sendOTP"
  /\ clock' = now
  /\ LET identifier == IF hMethod = "email" THEN hData.email
                       ELSE formatPhoneForSignup(ComponentPhone(hData))
         id == uid(identifier)
         new == NewUser(id, hMethod, identifier)
         trig == handle_new_user(user_profiles, new, now)
         creates == UserOf(hMethod, identifier) = {}
         ok == /\ identifier # NULL
               /\ accepted
               /\ creates => ~trig.raised
     IN IF ok
          THEN /\ authUsers' = IF creates THEN authUsers @@ (id :> new) ELSE authUsers
               /\ user_profiles' = IF creates THEN trig.tbl ELSE user_profiles
               /\ otpIssued' = otpIssued \cup {identifier}
               /\ otpSent' = IF hOrphan THEN otpSent ELSE TRUE
               /\ countdown' = IF hOrphan THEN countdown ELSE 60
               /\ cooling' = IF hOrphan THEN cooling ELSE TRUE
               /\ toast' = Toast("OTP Sent", "Verification code sent to your " \o MethodName(hMethod))
          ELSE /\ toast' = Toast("Failed to Send OTP",
                                 IF identifier = NULL
                                   THEN "Invalid phone number format. Please enter a valid 10-digit mobile number."
                                   ELSE "provider error")
               /\ UNCHANGED << backend, otpSent, countdown, cooling >>
  /\ isLoading' = IF hOrphan THEN isLoading ELSE FALSE
  /\ pc' = "idle"
  /\ LocalsGone
  /\ UNCHANGED << page, formData, signupIsLoading, showOTPVerification, tempUserData, localStorage,
                  selectedMethod, otp, hForm, phoneVars, isResending, rpc, rMethod, loginVars,
                  callVars >>

\* VerifyOTPClick of a component whose button and handler accept a code of any length
VerifyOTPClick_anyLength ==
  /\ page = "signup" /\ showOTPVerification /\ otpSent
  /\ ~isLoading /\ pc = "idle"
  /\ isLoading' = TRUE
  /\ pc' = "verifyOTP"
  /\ hData' = tempUserData
  /\ hMethod' = selectedMethod
  /\ hOrphan' = FALSE
  /\ hToken' = otp
  /\ verifyData' = NULL
  /\ updateError' = NULL
  /\ attempt' = 0
  /\ profileError' = NULL
  /\ payload' = NULL
  /\ delays' = << >>
  /\ UNCHANGED << page, formData, signupIsLoading, showOTPVerification, tempUserData, localStorage,
                  toast, selectedMethod, otp, otpSent, countdown, hForm, backend, clock,
                  phoneVars, viewVars, loginVars, callVars >>

\* verifyOTP up to its first await ("Verify & Create Account" button,
\* disabled while isLoading or otp.length !== 6)
VerifyOTPClick ==
  /\ page = "signup" /\ showOTPVerification /\ otpSent
  /\ ~isLoading /\ Len(otp) = 6 /\ pc = "idle"
  /\ IF otp = "" \/ Len(otp) # 6
       THEN /\ toast' = Toast("Invalid OTP", "Please enter a valid 6-digit OTP")
            /\ UNCHANGED << isLoading, pc, handlerLocals >>
       ELSE /\ isLoading' = TRUE
            /\ pc' = "verifyOTP"
            /\ hData' = tempUserData
            /\ hMethod' = selectedMethod
            /\ hOrphan' = FALSE
            /\ hToken' = otp
            /\ verifyData' = NULL
            /\ updateError' = NULL
            /\ attempt' = 0
            /\ profileError' = NULL
            /\ payload' = NULL
            /\ delays' = << >>
            /\ UNCHANGED toast
  /\ UNCHANGED << page, formData, signupIsLoading, showOTPVerification, tempUserData, localStorage,
                  selectedMethod, otp, otpSent, countdown, hForm, backend, clock,
                  phoneVars, viewVars, loginVars, callVars >>

\* VerificationFailed of a catch block that also empties the code field
VerificationFailed_clearsCode(message) ==
  /\ toast' = Toast("Verification Failed", message)
  /\ isLoading' = IF hOrphan THEN isLoading ELSE FALSE
  /\ pc' = "idle"
  /\ LocalsGone
  /\ otp' = ""
  /\ UNCHANGED << page, formData, signupIsLoading, showOTPVerification, tempUserData, localStorage,
                  selectedMethod, otpSent, countdown >>

\* the catch / finally of verifyOTP
VerificationFailed(message) ==
  /\ toast' = Toast("Verification Failed", message)
  /\ isLoading' = IF hOrphan THEN isLoading ELSE FALSE
  /\ pc' = "idle"
  /\ LocalsGone
  /\ UNCHANGED << page, formData, signupIsLoading, showOTPVerification, tempUserData, localStorage,
                  selectedMethod, otp, otpSent, countdown >>

\* verifyOTP after otpService.verifyOTP settled. The provider resolves an accepted
\* code to {data: {user, session}, error: null}, where the client library types
\* user as User | null: with a user the handler goes on to
\* completeSignupAfterOTP(tempUserData, verifyData.user.id), without one
\* (withUser = FALSE) it skips that call and runs to its end
VerifyOTPResponse(accepted, withUser) ==
  /\ pc = "verifyOTP"
  /\ LET identifier == IF hMethod = "email" THEN hData.email ELSE ComponentPhone(hData)
         users == UserOf(hMethod, identifier)
     IN IF accepted /\ identifier \in otpIssued /\ users # {}
          THEN /\ otpIssued' = otpIssued \ {identifier}
               /\ IF withUser
                    THEN /\ verifyData' = CHOOSE u \in users : TRUE
                         /\ pc' = "updateUser"
                         /\ hToken' = NULL
                         /\ UNCHANGED << page, formData, signupIsLoading, showOTPVerification,
                                         tempUserData, localStorage, toast, otpView, hData,
                                         hMethod, hOrphan, updateError, attempt, profileError,
                                         payload, delays >>
                    ELSE /\ localStorage' = NULL
                         /\ toast' = Toast("auth.accountCreated", "auth.welcomeToAgriCure")
                         /\ page' = "login"
                         /\ SignupReset
                         /\ OtpViewReset
                         /\ pc' = "idle"
                         /\ UNCHANGED handlerLocals
          ELSE /\ VerificationFailed("Invalid OTP code. Please check and try again.")
               /\ UNCHANGED otpIssued
  /\ UNCHANGED << hForm, authUsers, user_profiles, clock,
                  phoneVars, viewVars, loginVars, callVars >>

-----------------------------------------------------------------------------
(* authService.completeSignupAfterOTP, called by verifyOTP with the captured *)
(* staged data and verifyData.user.id; the client library resolves every    *)
(* call to {data, error}                                                      *)

maxRetries == 3

\* supabase.auth.updateUser({data: {full_name, product_id, phone_number}}) settled
UpdateUserResponse(fails) ==
  /\ pc = "updateUser"
  /\ IF fails
       THEN /\ updateError' = "updateError"
            /\ UNCHANGED authUsers
       ELSE /\ updateError' = NULL
            /\ authUsers' = [authUsers EXCEPT ![verifyData].raw_user_meta_data =
                               [@ EXCEPT !.full_name = hData.fullName,
                                         !.product_id = hData.productId,
                                         !.phone_number = hData.mobileNumber]]
  /\ attempt' = 1
  /\ profileError' = NULL
  /\ pc' = "upsert"
  /\ UNCHANGED << page, formData, signupIsLoading, showOTPVerification, tempUserData, localStorage,
                  toast, otpView, hForm, hData, hMethod, hOrphan, hToken, verifyData, payload, delays,
                  otpIssued, user_profiles, clock, phoneVars, viewVars, loginVars, callVars >>

\* UpsertResponse of a loop that also waits after its last attempt
UpsertResponse_waitsAfterLast(requestFails, sent, now) ==
  /\ pc = "upsert"
  /\ sent <= now
  /\ clock' = now
  /\ payload' = UpsertPayload(hData, sent)
  /\ LET res == IF requestFails THEN [error |-> "request failed", tbl |-> user_profiles]
                ELSE upsert(user_profiles, verifyData, payload', now)
     IN /\ user_profiles' = res.tbl
        /\ profileError' = res.error
        /\ IF res.error = NULL
             THEN pc' = "getUser" /\ UNCHANGED << attempt, delays >>
             ELSE /\ pc' = IF attempt < maxRetries THEN "upsert" ELSE "getUser"
                  /\ attempt' = IF attempt < maxRetries THEN attempt + 1 ELSE attempt
                  /\ delays' = Append(delays, 1000)
  /\ UNCHANGED << page, formData, signupIsLoading, showOTPVerification, tempUserData, localStorage,
                  toast, otpView, hForm, hData, hMethod, hOrphan, hToken, verifyData,
                  updateError, authUsers, otpIssued, phoneVars, viewVars, loginVars, callVars >>

\* one pass of the retry loop: the payload is built at the client's reading
\* `sent` of the clock (new Date()) and the upsert settles at the server's reading
\* `now` (requestFails: it did not reach the table); a failed attempt before the
\* last is followed by the 1 s wait
UpsertResponse(requestFails, sent, now) ==
  /\ pc = "upsert"
  /\ sent <= now
  /\ clock' = now
  /\ payload' = UpsertPayload(hData, sent)
  /\ LET res == IF requestFails THEN [error |-> "request failed", tbl |-> user_profiles]
                ELSE upsert(user_profiles, verifyData, payload', now)
     IN /\ user_profiles' = res.tbl
        /\ profileError' = res.error
        /\ IF res.error = NULL
             THEN pc' = "getUser" /\ UNCHANGED << attempt, delays >>
             ELSE IF attempt < maxRetries
               THEN /\ pc' = "upsert"
                    /\ attempt' = attempt + 1
                    /\ delays' = Append(delays, 1000)
               ELSE pc' = "getUser" /\ UNCHANGED << attempt, delays >>
  /\ UNCHANGED << page, formData, signupIsLoading, showOTPVerification, tempUserData, localStorage,
                  toast, otpView, hForm, hData, hMethod, hOrphan, hToken, verifyData,
                  updateError, authUsers, otpIssued, phoneVars, viewVars, loginVars, callVars >>

\* GetUserResponse of a completeSignupAfterOTP that returns profileError as its error
GetUserResponse_returnsProfileError(fails) ==
  /\ pc = "getUser"
  /\ IF fails \/ profileError # NULL
       THEN VerificationFailed(IF profileError # NULL THEN profileError ELSE "getUserError")
       ELSE /\ localStorage' = NULL
            /\ toast' = Toast("auth.accountCreated", "auth.welcomeToAgriCure")
            /\ page' = "login"
            /\ SignupReset
            /\ OtpViewReset
            /\ pc' = "idle"
            /\ UNCHANGED handlerLocals
  /\ UNCHANGED << hForm, backend, clock, phoneVars, viewVars, loginVars, callVars >>

\* supabase.auth.getUser() settled: completeSignupAfterOTP returns
\* {data: userData, error: getUserError} and verifyOTP runs to its end
GetUserResponse(fails) ==
  /\ pc = "getUser"
  /\ IF fails
       THEN VerificationFailed("getUserError")
       ELSE /\ localStorage' = NULL
            /\ toast' = Toast("auth.accountCreated", "auth.welcomeToAgriCure")
            /\ page' = "login"
            /\ SignupReset
            /\ OtpViewReset
            /\ pc' = "idle"
            /\ UNCHANGED handlerLocals
  /\ UNCHANGED << hForm, backend, clock, phoneVars, viewVars, loginVars, callVars >>

-----------------------------------------------------------------------------
(* The signup flow *)

PhoneIdle ==
  /\ phoneIn = ""
  /\ phoneArg = ""
  /\ phoneOut = "none"
  /\ providerPhone = NULL
  /\ intent = "none"
  /\ round = 0

\* everything but the route: the components as mounted for the first time, no
\* handler running, the backend empty
FlowFresh ==
  /\ formData = EmptyForm
  /\ signupIsLoading = FALSE
  /\ showOTPVerification = FALSE
  /\ tempUserData = NULL
  /\ localStorage = NULL
  /\ toast = NoToast
  /\ selectedMethod = "email"
  /\ otp = ""
  /\ isLoading = FALSE
  /\ otpSent = FALSE
  /\ countdown = 0
  /\ pc = "idle"
  /\ hForm = NULL
  /\ hData = NULL
  /\ hMethod = "email"
  /\ hOrphan = FALSE
  /\ hToken = NULL
  /\ verifyData = NULL
  /\ updateError = NULL
  /\ attempt = 0
  /\ profileError = NULL
  /\ payload = NULL
  /\ delays = << >>
  /\ authUsers = << >>
  /\ otpIssued = {}
  /\ user_profiles = << >>
  /\ clock = 0

FlowInit == page = "signup" /\ FlowFresh

\* the resend button never clicked
ViewIdle ==
  /\ isResending = FALSE
  /\ rpc = "idle"
  /\ rMethod = "email"
  /\ cooling = FALSE

\* no signInWithPassword call made
NoPayload == [email |-> NULL, phone |-> NULL, password |-> NULL]

\* the Login component as mounted
LoginIdle ==
  /\ emailOrPhone = ""
  /\ password = ""
  /\ loginIsLoading = FALSE
  /\ signInPayload = NoPayload

\* no otpService call followed
CallIdle ==
  /\ svcFn = "none"
  /\ svcResend = FALSE
  /\ svcArg = [type |-> "email", identifier |-> ""]
  /\ svcPc = "idle"
  /\ retries = 0
  /\ providerCalls = << >>
  /\ answers = << >>
  /\ waits = << >>
  /\ svcError = [name |-> "none", message |-> ""]
  /\ svcOutcome = "none"

Init == FlowInit /\ PhoneIdle /\ CallIdle /\ ViewIdle /\ LoginIdle

Next ==
  \/ \E t \in TypedForms : HandleSubmit(t)
  \/ \E query \in QueryOutcomes, setItemThrows \in BOOLEAN :
       ValidateProductIdResponse(query, setItemThrows)
  \/ HandleBackFromOTP
  \/ HomeLink
  \/ \E m \in {"email", "phone"} : SelectMethod(m)
  \/ \E typed \in TypedCodes : EnterOtp(typed)
  \/ ChangeMethod
  \/ SendOTPClick
  \/ \E accepted \in BOOLEAN, now \in Times : SendOTPResponse(accepted, now)
  \/ VerifyOTPClick
  \/ \E accepted, withUser \in BOOLEAN : VerifyOTPResponse(accepted, withUser)
  \/ \E fails \in BOOLEAN : UpdateUserResponse(fails)
  \/ \E requestFails \in BOOLEAN, sent \in Times, now \in Times :
       UpsertResponse(requestFails, sent, now)
  \/ \E fails \in BOOLEAN : GetUserResponse(fails)

Spec == Init /\ [][Next]_vars

-----------------------------------------------------------------------------
(* The OTP service called with a phone string                                *)

\* ten-digit mobile numbers, and strings that are not
MobileNumbers ==
  { lead \o rest : lead \in MobileLead, rest \in {"877059117", "000000000", "123456789"} }
OtherBodies == {"5877059117", "1234567890", "787705911", "78770591170", "78770-59117"}
Prefixes == {"", "+91", "91", "0", "+91 ", "+1", "+"}

\* the phone strings a caller passes
PhoneInputs ==
  { pre \o body : pre \in Prefixes, body \in MobileNumbers \cup OtherBodies }
    \cup {"", "12345", "abcdefghij", "9178770591170", "+91917877059117", "71234567890"}

\* otpService.sendPhoneOTPForSignup(phoneArg): online is navigator.onLine,
\* accepted the provider's answer to signInWithOtp
SendPhoneOTPForSignup(online, accepted) ==
  /\ intent = "none"
  /\ intent' = "signup"
  /\ LET formattedPhone == formatPhoneForSignup(phoneArg)
     IN IF formattedPhone = NULL
          THEN phoneOut' = "InvalidPhoneFormat" /\ providerPhone' = NULL
          ELSE IF ~online
            THEN phoneOut' = "NoInternetConnection" /\ providerPhone' = NULL
            ELSE /\ providerPhone' = formattedPhone
                 /\ phoneOut' = IF accepted THEN "sent" ELSE "ProviderError"
  /\ UNCHANGED << flowVars, callVars, viewVars, loginVars, phoneIn, phoneArg, round >>

\* otpService.sendPhoneOTPForLogin(phoneArg)
SendPhoneOTPForLogin(accepted) ==
  /\ intent = "none"
  /\ intent' = "login"
  /\ LET formattedPhone == formatPhoneForLogin(phoneArg)
     IN IF formattedPhone = NULL
          THEN phoneOut' = "InvalidPhoneFormat" /\ providerPhone' = NULL
          ELSE /\ providerPhone' = formattedPhone
               /\ phoneOut' = IF accepted THEN "sent" ELSE "ProviderError"
  /\ UNCHANGED << flowVars, callVars, viewVars, loginVars, phoneIn, phoneArg, round >>

\* the caller passes the identifier that was dispatched as the next phone string
CallAgain ==
  /\ providerPhone # NULL
  /\ round < MaxRounds
  /\ round' = round + 1
  /\ phoneArg' = providerPhone
  /\ providerPhone' = NULL
  /\ phoneOut' = "none"
  /\ intent' = "none"
  /\ UNCHANGED << flowVars, callVars, viewVars, loginVars, phoneIn >>

PhoneInit ==
  /\ FlowInit
  /\ CallIdle
  /\ ViewIdle
  /\ LoginIdle
  /\ phoneIn \in PhoneInputs
  /\ phoneArg = phoneIn
  /\ phoneOut = "none"
  /\ providerPhone = NULL
  /\ intent = "none"
  /\ round = 0

PhoneNext ==
  \/ \E online \in BOOLEAN, accepted \in BOOLEAN : SendPhoneOTPForSignup(online, accepted)
  \/ \E accepted \in BOOLEAN : SendPhoneOTPForLogin(accepted)
  \/ CallAgain

SpecPhone == PhoneInit /\ [][PhoneNext]_vars

-----------------------------------------------------------------------------
(* One call of an otpService function, followed through retryNetworkRequest: *)
(* the body runs, the provider answers, the catch block of the function      *)
(* rewrites the error, and retryNetworkRequest looks at the rewritten error  *)

RETRY_CONFIG == [maxRetries |-> 3, retryDelay |-> 1000, backoffMultiplier |-> 2]

\* String.prototype.includes, for a non-empty search string
includes(s, sub) ==
  \E i \in 1 .. (Len(s) - Len(sub) + 1) : SubSeq(s, i, i + Len(sub) - 1) = sub

\* an error object; new Error(message) has the name 'Error'
Error(name, message) == [name |-> name, message |-> message]
NewError(message) == Error("Error", message)
NoError == Error("none", "")

\* `error.message || fallback`
OrElse(message, fallback) == IF message = "" THEN fallback ELSE message

NetworkConnectionFailed ==
  NewError("Network connection failed. Please check your internet connection and try again.")
NoInternetConnection ==
  NewError("No internet connection. Please check your network and try again.")
InvalidPhoneFormat ==
  NewError("Invalid phone number format. Please enter a valid 10-digit mobile number.")

\* isNetworkError of a retryNetworkRequest that takes every error for a network error
isNetworkError_everyError(error) == error.name # "none"

\* retryNetworkRequest: const isNetworkError = ...
isNetworkError(error) ==
  \/ includes(error.message, "Failed to fetch")
  \/ includes(error.message, "ERR_NETWORK_CHANGED")
  \/ includes(error.message, "Network request failed")
  \/ error.name = "AuthRetryableFetchError"
  \/ error.name = "TypeError"

\* the catch blocks of the five functions: what each throws for the error it caught
catchSendEmailOTPForSignup(error) ==
  IF includes(error.message, "Signups not allowed")
    THEN NewError("Email signup is disabled. Please contact support or enable email signups in Supabase dashboard.")
  ELSE IF includes(error.message, "User already registered")
    THEN NewError("This email is already registered. Please use the login page instead.")
  ELSE IF includes(error.message, "Failed to fetch") \/ error.name = "AuthRetryableFetchError"
    THEN NetworkConnectionFailed
  ELSE NewError(OrElse(error.message, "Failed to send email OTP"))

catchSendPhoneOTPForSignup(error) ==
  IF includes(error.message, "Signups not allowed")
    THEN NewError("Phone signup is disabled. Please contact support or enable phone signups in Supabase dashboard.")
  ELSE IF includes(error.message, "User already registered")
    THEN NewError("This phone number is already registered. Please use the login page instead.")
  ELSE IF includes(error.message, "SMS provider")
    THEN NewError("SMS service is not configured. Please contact support.")
  ELSE IF includes(error.message, "Failed to fetch") \/ error.name = "AuthRetryableFetchError"
    THEN NetworkConnectionFailed
  ELSE NewError(OrElse(error.message, "Failed to send SMS OTP"))

catchSendEmailOTPForLogin(error) ==
  IF includes(error.message, "User not found")
    THEN NewError("No account found with this email. Please sign up first.")
  ELSE NewError(OrElse(error.message, "Failed to send email OTP"))

catchSendPhoneOTPForLogin(error) ==
  IF includes(error.message, "User not found")
    THEN NewError("No account found with this phone number. Please sign up first.")
  ELSE IF includes(error.message, "SMS provider")
    THEN NewError("SMS service is not configured. Please contact support.")
  ELSE NewError(OrElse(error.message, "Failed to send SMS OTP"))

\* catchVerifyOTP of a catch block without the 'Token has expired' case
catchVerifyOTP_noExpiredCase(error) ==
  IF includes(error.message, "Invalid token")
    THEN NewError("Invalid OTP code. Please check and try again.")
  ELSE IF includes(error.message, "Email not confirmed")
    THEN NewError("Email verification failed. Please try again.")
  ELSE IF includes(error.message, "Phone not confirmed")
    THEN NewError("Phone verification failed. Please try again.")
  ELSE IF includes(error.message, "Failed to fetch") \/ error.name = "AuthRetryableFetchError"
    THEN NetworkConnectionFailed
  ELSE NewError(OrElse(error.message, "OTP verification failed"))

catchVerifyOTP(error) ==
  IF includes(error.message, "Token has expired")
    THEN NewError("OTP has expired. Please request a new one.")
  ELSE IF includes(error.message, "Invalid token")
    THEN NewError("Invalid OTP code. Please check and try again.")
  ELSE IF includes(error.message, "Email not confirmed")
    THEN NewError("Email verification failed. Please try again.")
  ELSE IF includes(error.message, "Phone not confirmed")
    THEN NewError("Phone verification failed. Please try again.")
  ELSE IF includes(error.message, "Failed to fetch") \/ error.name = "AuthRetryableFetchError"
    THEN NetworkConnectionFailed
  ELSE NewError(OrElse(error.message, "OTP verification failed"))

Caught(fn, error) ==
  CASE fn = "sendEmailOTPForSignup" -> catchSendEmailOTPForSignup(error)
    [] fn = "sendPhoneOTPForSignup" -> catchSendPhoneOTPForSignup(error)
    [] fn = "sendEmailOTPForLogin" -> catchSendEmailOTPForLogin(error)
    [] fn = "sendPhoneOTPForLogin" -> catchSendPhoneOTPForLogin(error)
    [] fn = "verifyOTP" -> catchVerifyOTP(error)

SignupSends == {"sendEmailOTPForSignup", "sendPhoneOTPForSignup"}
LoginSends == {"sendEmailOTPForLogin", "sendPhoneOTPForLogin"}
ServiceFunctions == SignupSends \cup LoginSends \cup {"verifyOTP"}

\* the functions whose body is the operation of a retryNetworkRequest; the same
\* three test navigator.onLine before the provider call
Wrapped == SignupSends \cup {"verifyOTP"}

\* the identifier a function hands to the provider, NULL when its body throws
\* 'Invalid phone number format...' first
Dispatched(fn, arg) ==
  CASE fn = "sendPhoneOTPForSignup" -> formatPhoneForSignup(arg.identifier)
    [] fn = "sendPhoneOTPForLogin" -> formatPhoneForLogin(arg.identifier)
    [] OTHER -> arg.identifier

\* ProviderCall of a service whose login sends were copied from the signup sends
ProviderCall_createOnLogin(fn, arg) ==
  IF fn = "verifyOTP"
    THEN [method |-> "verifyOtp", channel |-> arg.type, identifier |-> arg.identifier]
    ELSE [method |-> "signInWithOtp",
          channel |-> arg.type,
          identifier |-> Dispatched(fn, arg),
          shouldCreateUser |-> TRUE]

\* the call made to supabase.auth: signInWithOtp({email | phone, options}) or
\* verifyOtp({type, token, email | phone})
ProviderCall(fn, arg) ==
  IF fn = "verifyOTP"
    THEN [method |-> "verifyOtp", channel |-> arg.type, identifier |-> arg.identifier]
    ELSE [method |-> "signInWithOtp",
          channel |-> arg.type,
          identifier |-> Dispatched(fn, arg),
          shouldCreateUser |-> fn \in SignupSends]

\* what the body throws before it reaches the provider, NoError when it reaches it
LocalError(fn, arg, online) ==
  IF Dispatched(fn, arg) = NULL THEN InvalidPhoneFormat
  ELSE IF fn \in Wrapped /\ ~online THEN NoInternetConnection
  ELSE NoError

\* the answers of the provider that are errors
ProviderErrors ==
  { Error("AuthApiError", "Signups not allowed for otp"),
    Error("AuthApiError", "User already registered"),
    Error("AuthApiError", "Error sending confirmation OTP to provider: SMS provider not configured"),
    Error("AuthApiError", "User not found"),
    Error("AuthApiError", "Token has expired or is invalid"),
    Error("AuthApiError", "Invalid token"),
    Error("AuthApiError", "Email not confirmed"),
    Error("AuthApiError", "Phone not confirmed"),
    Error("AuthApiError", "Database error saving new user"),
    Error("AuthApiError", ""),
    Error("AuthRetryableFetchError", "Failed to fetch"),
    Error("AuthRetryableFetchError", "Load failed"),
    Error("TypeError", "Failed to fetch"),
    Error("TypeError", "Network request failed"),
    Error("Error", "net::ERR_NETWORK_CHANGED") }

\* the arguments the functions are called with
EmailArgs == {"asha@farm.in", ""}
PhoneArgs == {"+917877059117", "7877059117", "12345", ""}
\* the SendOTPData objects the resend functions are called with
ResendData ==
  { [type |-> "email", identifier |-> e] : e \in EmailArgs }
    \cup { [type |-> "phone", identifier |-> ph] : ph \in PhoneArgs }
ServiceArgs(fn) ==
  CASE fn \in {"sendEmailOTPForSignup", "sendEmailOTPForLogin"} ->
         { [type |-> "email", identifier |-> e] : e \in EmailArgs }
    [] fn \in {"sendPhoneOTPForSignup", "sendPhoneOTPForLogin"} ->
         { [type |-> "phone", identifier |-> ph] : ph \in PhoneArgs }
    [] fn = "verifyOTP" ->
         { [type |-> "email", identifier |-> "asha@farm.in"],
           [type |-> "sms", identifier |-> "+917877059117"] }

\* the error `raw` was thrown inside the try of the body: the catch block rewrites
\* it, and the catch of retryNetworkRequest (for a wrapped function) waits and
\* calls the operation again, or throws
Fails(fn, resend, raw, left, ws) ==
  LET error == Caught(fn, raw)
  IN IF fn \in Wrapped /\ isNetworkError(error) /\ left > 0
       THEN /\ svcPc' = "wait"
            /\ waits' = Append(ws, RETRY_CONFIG.retryDelay * (RETRY_CONFIG.maxRetries - left + 1))
            /\ svcError' = NoError
            /\ svcOutcome' = "none"
       ELSE /\ svcPc' = "settled"
            /\ waits' = ws
            /\ svcError' = error
            /\ svcOutcome' = IF resend THEN "returned" ELSE "thrown"

\* the body of the function runs up to its provider call
Runs(fn, resend, arg, left, online, calls, ws) ==
  LET raw == LocalError(fn, arg, online)
  IN IF raw # NoError
       THEN /\ Fails(fn, resend, raw, left, ws)
            /\ providerCalls' = calls
       ELSE /\ svcPc' = "provider"
            /\ providerCalls' = Append(calls, ProviderCall(fn, arg))
            /\ waits' = ws
            /\ svcError' = NoError
            /\ svcOutcome' = "none"

\* a caller calls fn(arg); online is navigator.onLine
CallService(fn, arg, online) ==
  /\ svcPc = "idle"
  /\ svcFn' = fn
  /\ svcResend' = FALSE
  /\ svcArg' = arg
  /\ retries' = IF fn \in Wrapped THEN RETRY_CONFIG.maxRetries ELSE 0
  /\ answers' = << >>
  /\ Runs(fn, FALSE, arg, retries', online, << >>, << >>)
  /\ UNCHANGED << flowVars, phoneVars, viewVars, loginVars >>

\* resendOTPForSignup(data) / resendOTPForLogin(data): the send function of
\* data.type, its error returned instead of thrown
ResendOTP(forIntent, data, online) ==
  /\ svcPc = "idle"
  /\ svcResend' = TRUE
  /\ svcArg' = data
  /\ answers' = << >>
  /\ IF data.identifier = ""
       THEN /\ svcFn' = "none"
            /\ retries' = 0
            /\ svcPc' = "settled"
            /\ providerCalls' = << >>
            /\ waits' = << >>
            /\ svcError' = NewError("Invalid resend data provided")
            /\ svcOutcome' = "returned"
       ELSE LET fn == IF forIntent = "signup"
                        THEN (IF data.type = "email" THEN "sendEmailOTPForSignup"
                              ELSE "sendPhoneOTPForSignup")
                        ELSE (IF data.type = "email" THEN "sendEmailOTPForLogin"
                              ELSE "sendPhoneOTPForLogin")
            IN /\ svcFn' = fn
               /\ retries' = IF fn \in Wrapped THEN RETRY_CONFIG.maxRetries ELSE 0
               /\ Runs(fn, TRUE, data, retries', online, << >>, << >>)
  /\ UNCHANGED << flowVars, phoneVars, viewVars, loginVars >>

\* the provider answers the call awaited with {data, error: answer}. No error:
\* signInWithOtp sent a code,
\* after inserting the user when the identifier is unknown and creation was asked
\* for (the insert fires handle_new_user); verifyOtp accepted the token
ProviderResponds(answer) ==
  /\ svcPc = "provider"
  /\ answers' = Append(answers, answer)
  /\ LET call == providerCalls[Len(providerCalls)]
         channel == IF call.channel = "email" THEN "email" ELSE "phone"
         known == UserOf(channel, call.identifier) # {}
         id == uid(call.identifier)
         new == NewUser(id, channel, call.identifier)
         trig == handle_new_user(user_profiles, new, clock)
         creates == call.method = "signInWithOtp" /\ ~known /\ call.shouldCreateUser
     IN IF answer = NoError
          THEN /\ known \/ (creates /\ ~trig.raised)
               /\ authUsers' = IF creates THEN authUsers @@ (id :> new) ELSE authUsers
               /\ user_profiles' = IF creates THEN trig.tbl ELSE user_profiles
               /\ svcPc' = "settled"
               /\ svcError' = NoError
               /\ svcOutcome' = "resolved"
               /\ UNCHANGED waits
          ELSE /\ answer \in ProviderErrors
               /\ Fails(svcFn, svcResend, answer, retries, waits)
               /\ UNCHANGED << authUsers, user_profiles >>
  /\ UNCHANGED << page, formData, signupIsLoading, showOTPVerification, tempUserData, localStorage,
                  toast, otpView, pc, hForm, handlerLocals, otpIssued, clock,

                  phoneVars, viewVars, loginVars, svcFn, svcResend, svcArg, retries, providerCalls >>

\* the wait of retryNetworkRequest is over: retryNetworkRequest(operation, retries - 1)
WaitElapsed(online) ==
  /\ svcPc = "wait"
  /\ retries' = retries - 1
  /\ Runs(svcFn, svcResend, svcArg, retries', online, providerCalls, waits)
  /\ UNCHANGED << flowVars, phoneVars, viewVars, loginVars, svcFn, svcResend, svcArg, answers >>

\* the caller has taken the result of the call: nothing of the call remains
CallReturns ==
  /\ svcPc = "settled"
  /\ svcFn' = "none"
  /\ svcResend' = FALSE
  /\ svcArg' = [type |-> "email", identifier |-> ""]
  /\ svcPc' = "idle"
  /\ retries' = 0
  /\ providerCalls' = << >>
  /\ answers' = << >>
  /\ waits' = << >>
  /\ svcError' = NoError
  /\ svcOutcome' = "none"
  /\ UNCHANGED << flowVars, phoneVars, viewVars, loginVars >>

CallInit == FlowInit /\ PhoneIdle /\ CallIdle /\ ViewIdle /\ LoginIdle

CallNext ==
  \/ \E fn \in ServiceFunctions : \E arg \in ServiceArgs(fn), online \in BOOLEAN :
       CallService(fn, arg, online)
  \/ \E forIntent \in {"signup", "login"}, data \in ResendData, online \in BOOLEAN :
       ResendOTP(forIntent, data, online)
  \/ \E answer \in {NoError} \cup ProviderErrors : ProviderResponds(answer)
  \/ \E online \in BOOLEAN : WaitElapsed(online)
  \/ CallReturns

SpecCall == CallInit /\ [][CallNext]_vars

-----------------------------------------------------------------------------
(* The OTP view with its resend button and its countdown timer, followed     *)
(* from the moment the form was staged (specification SpecView)              *)

\* useEffect on [countdown]: setTimeout(() => setCountdown(countdown - 1), 1000)
\* fired while the component is mounted and countdown > 0
CountdownTick_whileZero ==
  /\ page = "signup" /\ showOTPVerification
  /\ countdown' = countdown - 1
  /\ cooling' = IF countdown' = 0 THEN FALSE ELSE cooling
  /\ UNCHANGED << page, formData, signupIsLoading, showOTPVerification, tempUserData, localStorage,
                  toast, selectedMethod, otp, isLoading, otpSent, pc, hForm, handlerLocals,
                  backend, clock, phoneVars, callVars, loginVars, isResending, rpc, rMethod >>

CountdownTick ==
  /\ page = "signup" /\ showOTPVerification
  /\ countdown > 0
  /\ countdown' = countdown - 1
  /\ cooling' = IF countdown' = 0 THEN FALSE ELSE cooling
  /\ UNCHANGED << page, formData, signupIsLoading, showOTPVerification, tempUserData, localStorage,
                  toast, selectedMethod, otp, isLoading, otpSent, pc, hForm, handlerLocals,
                  backend, clock, phoneVars, callVars, loginVars, isResending, rpc, rMethod >>

\* resendOTP up to its await ("Resend OTP" button, shown with the code field and
\* disabled while isResending || countdown > 0)
ResendOTPClick ==
  /\ page = "signup" /\ showOTPVerification /\ otpSent
  /\ ~isResending /\ countdown = 0 /\ rpc = "idle"
  /\ isResending' = TRUE
  /\ rpc' = "resendOTP"
  /\ rMethod' = selectedMethod
  /\ UNCHANGED << flowVars, phoneVars, callVars, loginVars, cooling >>

\* resendOTP after otpService.resendOTPForSignup returned {data, error}: the
\* service sends as sendEmailOTPForSignup / sendPhoneOTPForSignup do
ResendOTPResponse(accepted, now) ==
  /\ rpc = "resendOTP"
  /\ clock' = now
  /\ LET mounted == page = "signup" /\ showOTPVerification
         \* the tempUserData prop the handler closed over: the view is unmounted
         \* only by a verifyOTP that completed, whose handler closed over the same prop
         data == IF mounted THEN tempUserData ELSE hData
         identifier == IF rMethod = "email" THEN data.email
                       ELSE formatPhoneForSignup(ComponentPhone(data))
         id == uid(identifier)
         new == NewUser(id, rMethod, identifier)
         trig == handle_new_user(user_profiles, new, now)
         creates == UserOf(rMethod, identifier) = {}
         ok == /\ identifier # NULL
               /\ accepted
               /\ creates => ~trig.raised
     IN IF ok
          THEN /\ authUsers' = IF creates THEN authUsers @@ (id :> new) ELSE authUsers
               /\ user_profiles' = IF creates THEN trig.tbl ELSE user_profiles
               /\ otpIssued' = otpIssued \cup {identifier}
               /\ countdown' = IF mounted THEN 60 ELSE countdown
               /\ cooling' = IF mounted THEN TRUE ELSE cooling
               /\ toast' = Toast("OTP Resent",
                                 "New verification code sent to your " \o MethodName(rMethod))
          ELSE /\ toast' = Toast("Failed to Resend OTP",
                                 IF identifier = NULL
                                   THEN "Invalid phone number format. Please enter a valid 10-digit mobile number."
                                   ELSE "provider error")
               /\ UNCHANGED << backend, countdown, cooling >>
  /\ isResending' = FALSE
  /\ rpc' = "idle"
  /\ rMethod' = "email"
  /\ UNCHANGED << page, formData, signupIsLoading, showOTPVerification, tempUserData, localStorage,
                  selectedMethod, otp, isLoading, otpSent, pc, hForm, handlerLocals,
                  phoneVars, callVars, loginVars >>

\* the OTP view just mounted by handleSubmit for a form that passed validateForm
\* and validateProductId, nothing sent yet
ViewInit ==
  /\ page = "signup"
  /\ \E t \in TypedForms :
       /\ validateForm(handleChange(t)) = << >>
       /\ validateProductId(t.productId, "answered")
       /\ formData = handleChange(t)
       /\ tempUserData = TempData(handleChange(t))
       /\ localStorage = TempData(handleChange(t))
  /\ signupIsLoading = FALSE
  /\ showOTPVerification = TRUE
  /\ toast = Toast("Ready for Verification",
                   "Please choose your verification method to complete registration")
  /\ selectedMethod = "email"
  /\ otp = ""
  /\ isLoading = FALSE
  /\ otpSent = FALSE
  /\ countdown = 0
  /\ pc = "idle"
  /\ hForm = NULL
  /\ hData = NULL
  /\ hMethod = "email"
  /\ hOrphan = FALSE
  /\ hToken = NULL
  /\ verifyData = NULL
  /\ updateError = NULL
  /\ attempt = 0
  /\ profileError = NULL
  /\ payload = NULL
  /\ delays = << >>
  /\ authUsers = << >>
  /\ otpIssued = {}
  /\ user_profiles = << >>
  /\ clock = 0
  /\ PhoneIdle /\ CallIdle /\ ViewIdle /\ LoginIdle

ViewNext ==
  \/ \E m \in {"email", "phone"} : SelectMethod(m)
  \/ ChangeMethod
  \/ SendOTPClick
  \/ \E accepted \in BOOLEAN, now \in Times : SendOTPResponse(accepted, now)
  \/ CountdownTick
  \/ ResendOTPClick
  \/ \E accepted \in BOOLEAN, now \in Times : ResendOTPResponse(accepted, now)

SpecView == ViewInit /\ [][ViewNext]_vars

\* the countdown effect re-arms its one-second timer after every change of
\* countdown for as long as the view is mounted, so a pending tick always fires
SpecViewFair == SpecView /\ WF_vars(CountdownTick)

\* the OTP view with every handler of the component: sending, the countdown,
\* resending, typing the code and verifying it, up to the answer of
\* otpService.verifyOTP (what completeSignupAfterOTP does then is followed in Spec)
OtpViewNext ==
  \/ ViewNext
  \/ \E typed \in TypedCodes : EnterOtp(typed)
  \/ VerifyOTPClick
  \/ \E accepted, withUser \in BOOLEAN : VerifyOTPResponse(accepted, withUser)

SpecOtpView == ViewInit /\ [][OtpViewNext]_vars

-----------------------------------------------------------------------------
(* The OTP view rendered for the emails the form lets through                *)

\* String.prototype.repeat: a negative count throws a RangeError (NULL)
RECURSIVE repeat(_, _)
repeat(s, count) ==
  IF count < 0 THEN NULL
  ELSE IF count = 0 THEN ""
  ELSE s \o repeat(s, count - 1)

\* the second piece of email.split('@'): what follows the first '@', up to the next
RECURSIVE upToAt(_)
upToAt(s) == IF s = "" \/ CharAt(s, 1) = "@" THEN "" ELSE CharAt(s, 1) \o upToAt(Tail(s))
domainOf(email) ==
  LET username == split_part_1(email)
  IN IF Len(username) = Len(email) THEN "undefined"
     ELSE upToAt(SubSeq(email, Len(username) + 2, Len(email)))

\* maskEmail: NULL when it throws
maskEmail(email) ==
  LET username == split_part_1(email)
      domain == domainOf(email)
      stars == repeat("*", Len(username) - 2)
  IN IF stars = NULL THEN NULL
     ELSE sliceFirst(username, 2) \o stars \o "@" \o domain

\* what the user types into the email field
TypedEmails == {"asha@farm.in", "as@farm.in", "a@farm.in", "a@b.co", "asha@farm", "a b@farm.in", ""}

\* the form filled in with an email as typed, its other fields valid
FormWithEmail(typed) ==
  [productId |-> "AGRICURE-001", name |-> "Asha", mobileNumber |-> "78770 59117",
   email |-> typed, password |-> "secret1", confirmPassword |-> "secret1"]

\* the signup page from the form to the OTP view and back; the view shows the
\* masked email on its method button and, for the email method, on its badge
\* once a code is sent
MaskNext ==
  \/ \E typed \in TypedEmails : HandleSubmit(FormWithEmail(typed))
  \/ \E query \in QueryOutcomes, setItemThrows \in BOOLEAN :
       ValidateProductIdResponse(query, setItemThrows)
  \/ \E m \in {"email", "phone"} : SelectMethod(m)
  \/ SendOTPClick
  \/ \E accepted \in BOOLEAN, now \in Times : SendOTPResponse(accepted, now)
  \/ ChangeMethod
  \/ HandleBackFromOTP

SpecMask == Init /\ [][MaskNext]_vars

-----------------------------------------------------------------------------
(* Users inserted into auth.users, with the trigger on_auth_user_created     *)

TriggerIds == {"u1", "u2"}

\* the users an INSERT INTO auth.users can carry: with or without email and
\* phone, the email one the profile table's CHECK accepts or not, the metadata
\* with or without a name and with a phone_number of either shape
TriggerUsers ==
  { [id |-> id, email |-> email, phone |-> phone, encrypted_password |-> NULL,
     raw_user_meta_data |-> [OtpSignupMeta EXCEPT !.full_name = full_name,
                                                  !.phone_number = phone_number]] :
      id \in TriggerIds,
      email \in {NULL, "asha@farm.in", "ravi@farm.in", "x@y.z"},
      phone \in {NULL, "+917877059117"},
      full_name \in {NULL, "Asha"},
      phone_number \in {NULL, "+917877059117", "7877059117"} }

\* INSERT INTO auth.users of a row the table's own unique indexes (id, email,
\* phone) admit; the trigger runs in the same transaction, so an error it lets
\* out undoes the insert
InsertUser(new, now) ==
  /\ new.id \notin DOMAIN authUsers
  /\ \A u \in DOMAIN authUsers :
       /\ new.email # NULL => authUsers[u].email # new.email
       /\ new.phone # NULL => authUsers[u].phone # new.phone
  /\ clock' = now
  /\ LET trig == handle_new_user(user_profiles, new, now)
     IN IF trig.raised
          THEN UNCHANGED << authUsers, user_profiles >>
          ELSE /\ authUsers' = authUsers @@ (new.id :> new)
               /\ user_profiles' = trig.tbl
  /\ UNCHANGED << page, formData, signupIsLoading, showOTPVerification, tempUserData, localStorage,
                  toast, otpView, pc, hForm, handlerLocals, otpIssued,
                  phoneVars, viewVars, loginVars, callVars >>

TriggerNext == \E new \in TriggerUsers, now \in Times : InsertUser(new, now)

SpecTrigger == Init /\ [][TriggerNext]_vars

-----------------------------------------------------------------------------
(* Login page: the input is routed to the email or to the phone password    *)
(* sign-in (specification SpecLogin)                                         *)

\* what the user types into the "Email or Mobile Number" field
LoginTyped ==
  { "asha@farm.in", "omar@farm.in", "asha@farm", " asha@farm.in", "asha@farm.in ", "@",
    "+91@farm.in", "98765@43210", "7877059117", "78770 59117", "+917877059117",
    "+91 78770 59117", "9876543210", "98765", "abc", "" }

\* what the user types into the password field
LoginPasswords == {"", "secret1"}

\* onChange of the field: without an '@' the value keeps its digits only, 10 at most
ChangeEmailOrPhone(value) ==
  /\ page = "login"
  /\ emailOrPhone' = IF ~includes(value, "@") THEN sliceFirst(stripNonDigits(value), 10)
                     ELSE value
  /\ UNCHANGED << flowVars, phoneVars, callVars, viewVars, password, loginIsLoading,
                  signInPayload >>

\* onChange of the password field
ChangePassword(value) ==
  /\ page = "login"
  /\ password' = value
  /\ UNCHANGED << flowVars, phoneVars, callVars, viewVars, emailOrPhone, loginIsLoading,
                  signInPayload >>

\* Login.validateInput: the description of the error toast, "" when the input is valid
validateInput(input, pw) ==
  IF trim(input) = "" THEN "Please enter your email or mobile number"
  ELSE IF pw = "" THEN "Please enter your password"
  ELSE IF includes(input, "@")
    THEN IF ~emailRegex(input) THEN "Please enter a valid email address" ELSE ""
    ELSE IF ~(Len(input) = 10 /\ AllIn(input, Digits))
           THEN "Please enter a valid 10-digit mobile number" ELSE ""

\* Login.handleSubmit: const formattedInput
formattedInput(input) ==
  IF includes(input, "@") THEN input
  ELSE IF startsWith(input, "+") THEN input ELSE "+91" \o input

\* signIn that prefixes every phone input, the prefixed ones included
signIn_prefixesAgain(data) ==
  IF includes(data.emailOrPhone, "@")
    THEN [email |-> data.emailOrPhone, phone |-> NULL, password |-> data.password]
    ELSE [email |-> NULL, phone |-> "+91" \o data.emailOrPhone, password |-> data.password]

\* authService.signIn: the object handed to supabase.auth.signInWithPassword
signIn(data) ==
  IF includes(data.emailOrPhone, "@")
    THEN [email |-> data.emailOrPhone, phone |-> NULL, password |-> data.password]
    ELSE [email |-> NULL,
          phone |-> IF startsWith(data.emailOrPhone, "+") THEN data.emailOrPhone
                    ELSE "+91" \o data.emailOrPhone,
          password |-> data.password]

\* Login.handleSubmit up to its await (the submit button is disabled while isLoading)
LoginHandleSubmit ==
  /\ page = "login" /\ ~loginIsLoading
  /\ LET message == validateInput(emailOrPhone, password)
     IN IF message # ""
          THEN /\ toast' = Toast("common.error", message)
               /\ UNCHANGED << loginIsLoading, signInPayload >>
          ELSE /\ loginIsLoading' = TRUE
               /\ signInPayload' = signIn([emailOrPhone |-> formattedInput(emailOrPhone),
                                           password |-> password])
               /\ UNCHANGED toast
  /\ UNCHANGED << page, formData, signupIsLoading, showOTPVerification, tempUserData, localStorage,
                  otpView, pc, hForm, handlerLocals, backend, clock, phoneVars, callVars,
                  viewVars, emailOrPhone, password >>

\* what signInWithPassword resolves to: a user, an error, or neither
SignInOutcomes == {"user", "error", "nouser"}

\* Login.handleSubmit after authService.signIn settled
SignInResponse(outcome) ==
  /\ page = "login" /\ loginIsLoading
  /\ loginIsLoading' = FALSE
  /\ IF outcome = "error"
       THEN toast' = Toast("auth.loginFailed", "Invalid login credentials") /\ UNCHANGED page
       ELSE IF outcome = "user"
         THEN toast' = Toast("auth.loginSuccess", "Welcome back!") /\ page' = "dashboard"
         ELSE UNCHANGED << toast, page >>
  /\ UNCHANGED << formData, signupIsLoading, showOTPVerification, tempUserData, localStorage,
                  otpView, pc, hForm, handlerLocals, backend, clock, phoneVars, callVars,
                  viewVars, emailOrPhone, password, signInPayload >>

LoginInit == page = "login" /\ FlowFresh /\ PhoneIdle /\ CallIdle /\ ViewIdle /\ LoginIdle

LoginNext ==
  \/ \E value \in LoginTyped : ChangeEmailOrPhone(value)
  \/ \E value \in LoginPasswords : ChangePassword(value)
  \/ LoginHandleSubmit
  \/ \E outcome \in SignInOutcomes : SignInResponse(outcome)

SpecLogin == LoginInit /\ [][LoginNext]_vars

-----------------------------------------------------------------------------
(* Properties of the signup flow (specification Spec)                        *)

Completed ==
  /\ page = "login"
  /\ localStorage = NULL
  /\ tempUserData = NULL
  /\ toast = Toast("auth.accountCreated", "auth.welcomeToAgriCure")

\* the handler in flight is past an accepted verification
Reconciling == verifyData # NULL /\ pc \in {"updateUser", "upsert", "getUser"}

\* C1: once the provider has accepted the code, whatever the outcomes of
\* updateUser, of the upsert attempts and of getUser, the handler ends with the
\* flow at Complete and the staged data cleared, never with a verification error
\* and the staged data still present.
C1_VerifiedAlwaysCompletes ==
  [][(Reconciling /\ pc' = "idle") => Completed']_vars

\* C2: when the upsert failed on all 3 attempts and updateUser succeeded, the
\* handler ends either with the error of getUser or, getUser having succeeded,
\* with the flow at Complete, the staging record removed and the success toast.
C2_UpsertExhaustedStillCompletes ==
  [][(/\ Reconciling /\ pc = "getUser"
      /\ attempt = maxRetries /\ profileError # NULL /\ updateError = NULL
      /\ pc' = "idle")
     => (toast' = Toast("Verification Failed", "getUserError") \/ Completed')]_vars

\* C2 witness: the flow completed after three failed upsert attempts
C2_witness ==
  /\ Completed
  /\ verifyData # NULL
  /\ attempt = maxRetries
  /\ profileError # NULL
  /\ updateError = NULL

\* C3: after a successful upsert for the verified user with staged data D, the
\* user's row has full_name, email, phone_number and product_id of D.
C3_RowCarriesStagedData ==
  [][(pc = "upsert" /\ pc' = "getUser" /\ profileError' = NULL)
     => LET row == user_profiles'[verifyData]
        IN /\ row.full_name = hData.fullName
           /\ row.email = hData.email
           /\ row.phone_number = hData.mobileNumber
           /\ row.product_id = hData.productId]_vars

\* the columns holding text, which may be NULL, and those holding a time, which the
\* payload always carries
TextColumns == {"full_name", "email", "phone_number", "product_id"}
TimeColumns == {"created_at", "updated_at"}

\* the incoming text values of a write: the columns the payload names, NULL for the others
Incoming(p) == [f \in TextColumns |-> IF f \in DOMAIN p THEN p[f] ELSE NULL]

\* new is old merged with the payload p on the text columns and on the time columns times
Merged(old, p, new, times) ==
  /\ \A f \in TextColumns : new[f] = IF Incoming(p)[f] # NULL THEN Incoming(p)[f] ELSE old[f]
  /\ \A f \in times : new[f] = p[f]

\* C4 as stated: on every write to an existing row each column afterwards is the
\* incoming value if that is non-null and the previous value otherwise.
C4_MergeEveryColumn ==
  [][\A u \in DOMAIN user_profiles :
       user_profiles'[u] # user_profiles[u]
         => /\ pc = "upsert" /\ u = verifyData
            /\ Merged(user_profiles[u], payload', user_profiles'[u], TimeColumns)]_vars

\* C4 amended: on every write to an existing row each column other than
\* updated_at is the incoming value if that is non-null and the previous value
\* otherwise, updated_at is the server's time of the write, and no column that
\* was non-null is null afterwards.
C4_MergeButUpdatedAt ==
  [][\A u \in DOMAIN user_profiles :
       user_profiles'[u] # user_profiles[u]
         => /\ pc = "upsert" /\ u = verifyData
            /\ Merged(user_profiles[u], payload', user_profiles'[u], {"created_at"})
            /\ user_profiles'[u].updated_at = clock'
            /\ \A f \in TextColumns :
                 user_profiles[u][f] # NULL => user_profiles'[u][f] # NULL]_vars

\* C4 witness: the upsert has written the row the trigger had created; the
\* trigger's product_id is still there and the server's time differs from the payload's
C4_witness ==
  /\ pc = "getUser" /\ profileError = NULL
  /\ user_profiles[verifyData].product_id = "DEMO-001"
  /\ user_profiles[verifyData].full_name = payload.full_name
  /\ user_profiles[verifyData].updated_at # payload.updated_at

\* C5: an upsert onto the row an upsert with the same input has left does not change the row.
C5_UpsertIdempotent ==
  [][(/\ pc = "upsert" /\ pc' = "getUser" /\ profileError' = NULL
      /\ verifyData \in DOMAIN user_profiles
      /\ user_profiles[verifyData].full_name = hData.fullName
      /\ user_profiles[verifyData].email = hData.email
      /\ user_profiles[verifyData].phone_number = hData.mobileNumber)
     => user_profiles'[verifyData] = user_profiles[verifyData]]_vars

\* the table after the trigger's write and then the upsert, and in the other order
TriggerThenUpsert(tbl, new, p, now) ==
  upsert(handle_new_user(tbl, new, now).tbl, new.id, p, now).tbl
UpsertThenTrigger(tbl, new, p, now) ==
  handle_new_user(upsert(tbl, new.id, p, now).tbl, new, now).tbl

\* C6: for the user being reconciled, as created by the provider, and the staged
\* payload, the table is the same whichever of the trigger's write and the
\* upsert lands first on the table without the user's row.
C6_TriggerUpsertCommute ==
  pc = "upsert" =>
    LET new == [authUsers[verifyData] EXCEPT !.raw_user_meta_data = OtpSignupMeta]
        others == [o \in DOMAIN user_profiles \ {verifyData} |-> user_profiles[o]]
        p == UpsertPayload(hData, clock)
    IN TriggerThenUpsert(others, new, p, clock) = UpsertThenTrigger(others, new, p, clock)

\* C7: every created user has a profile row, every non-null phone_number matches
\* ^\+\d{10,15}$, and no two rows share a non-null phone_number.
C7_OneRowPerUser ==
  /\ \A u \in DOMAIN authUsers : u \in DOMAIN user_profiles
  /\ \A u \in DOMAIN user_profiles :
       user_profiles[u].phone_number # NULL => PhoneFormatOk(user_profiles[u].phone_number)
  /\ \A u, o \in DOMAIN user_profiles :
       (u # o /\ user_profiles[u].phone_number # NULL)
         => user_profiles[u].phone_number # user_profiles[o].phone_number

-----------------------------------------------------------------------------
(* Properties of the phone normalisation (specification SpecPhone)           *)

\* '+91' followed by a 10-digit number starting with 6-9
CanonicalPhone(p) == Len(p) = 13 /\ SubSeq(p, 1, 3) = "+91" /\ IsMobile10(SubSeq(p, 4, 13))

\* C8: for a 10-digit input starting with 6-9 the signup normalisation does not
\* fail, the phone it dispatches is '+91' followed by the input, and
\* normalising a dispatched phone again dispatches it unchanged.
C8_TenDigitsPrefixedIdempotent ==
  (intent = "signup" /\ IsMobile10(phoneIn))
    => /\ phoneOut # "InvalidPhoneFormat"
       /\ providerPhone # NULL => providerPhone = "+91" \o phoneIn
       /\ (round > 0 /\ providerPhone # NULL) => providerPhone = phoneArg

\* C8 witness: a normalised 10-digit number was normalised again and came back unchanged
C8_witness ==
  /\ intent = "signup" /\ IsMobile10(phoneIn)
  /\ round = 1 /\ phoneArg = "+91" \o phoneIn
  /\ phoneOut = "sent" /\ providerPhone = phoneArg

\* 10 digits starting 6-9, or 91 followed by such a number
RecognizedShape(digits) == IsMobile10(digits) \/ Is91Mobile(digits)

\* C9 as stated: a phone whose digits are not a recognized shape fails with
\* InvalidPhoneFormat and is not handed to the provider.
C9_UnrecognizedShapeFails ==
  (intent # "none" /\ ~RecognizedShape(stripNonDigits(phoneArg)))
    => (phoneOut = "InvalidPhoneFormat" /\ providerPhone = NULL)

\* C9 amended: a phone whose last ten digits are not a 10-digit number starting
\* with 6-9 fails with InvalidPhoneFormat and is not handed to the provider.
C9_LastTenDigitsDecide ==
  (intent # "none" /\ ~IsMobile10(sliceLast(stripNonDigits(phoneArg), 10)))
    => (phoneOut = "InvalidPhoneFormat" /\ providerPhone = NULL)

\* C9 witness: an 11-digit input not starting with 91 was rejected under signup intent
C9_witness ==
  /\ intent = "signup" /\ round = 0
  /\ Len(stripNonDigits(phoneIn)) = 11 /\ ~startsWith(stripNonDigits(phoneIn), "91")
  /\ phoneOut = "InvalidPhoneFormat" /\ providerPhone = NULL

\* C10: every phone handed to the provider, under either intent, is canonical,
\* and the input 917877059117 is dispatched as +917877059117.
C10_DispatchedPhoneCanonical ==
  providerPhone # NULL
    => /\ CanonicalPhone(providerPhone)
       /\ phoneArg = "917877059117" => providerPhone = "+917877059117"


-----------------------------------------------------------------------------
(* Properties of the OTP view and the signup page (specification Spec)      *)

SixDigits(code) == Len(code) = 6 /\ AllIn(code, Digits)

\* C11: every verifyOtp call that reaches the provider carries a token of
\* exactly six digits, and while the entered code is not six digits no verify
\* call is started (the code is turned down in the browser)
C11_ProviderTokenSixDigits ==
  [][ /\ (pc' = "verifyOTP" => SixDigits(hToken'))
      /\ ((pc = "idle" /\ ~SixDigits(otp)) => pc' # "verifyOTP") ]_vars

\* a verify call is awaited with a six-digit token while the field already
\* holds something else
C11_witness == pc = "verifyOTP" /\ SixDigits(hToken) /\ otp # hToken /\ otp # ""


-----------------------------------------------------------------------------
(* Properties of the otpService calls (specification SpecCall)              *)

\* the transient-network signatures retryNetworkRequest looks for, tested on the
\* error the provider answered with
Transient(answer) == answer # NoError /\ isNetworkError(answer)

\* every provider call of the running service call has been answered with an error
AllAnswered(P(_)) ==
  /\ Len(answers) = Len(providerCalls)
  /\ Len(answers) >= 1
  /\ \A i \in 1 .. Len(answers) : P(answers[i])

\* C12: a signup send or a verify whose provider call keeps failing with a
\* transient network error makes the call 3 times at most, and the wait that
\* follows attempt n is 1000 ms times n
C12_ThreeCallsLinearBackoff ==
  (svcFn \in Wrapped /\ AllAnswered(Transient))
    => /\ Len(providerCalls) <= 3
       /\ \A n \in 1 .. Len(waits) : waits[n] = 1000 * n

FailedToFetch(answer) == includes(answer.message, "Failed to fetch")

\* C13: a signup send all of whose provider calls failed with a message
\* containing "Failed to fetch" has, once it ended, made 3 provider calls with
\* waits of 1 s and 2 s between them and surfaces the connectivity-check error
C13_FailedToFetchRetriedTwice ==
  (svcFn \in SignupSends /\ svcPc = "settled" /\ AllAnswered(FailedToFetch))
    => /\ Len(providerCalls) = 3
       /\ waits = << 1000, 2000 >>
       /\ svcError = NetworkConnectionFailed


\* the six failures that are not transient, as the caller sees them
NonTransientCopies ==
  { InvalidPhoneFormat.message,
    "Email signup is disabled. Please contact support or enable email signups in Supabase dashboard.",
    "Phone signup is disabled. Please contact support or enable phone signups in Supabase dashboard.",
    "This email is already registered. Please use the login page instead.",
    "This phone number is already registered. Please use the login page instead.",
    "SMS service is not configured. Please contact support.",
    "OTP has expired. Please request a new one.",
    "Invalid OTP code. Please check and try again." }

NonTransient(error) == error.message \in NonTransientCopies

C15_LoginSendRetried ==
  [][ (svcFn \in LoginSends /\ svcPc = "provider"
         /\ Len(answers') = 1 /\ Transient(answers'[1]))
        => (svcPc' = "wait" /\ Len(waits') = 1) ]_vars

LoginDispatch(call) == call.method = "signInWithOtp" /\ ~call.shouldCreateUser
SignupDispatch(call) == call.method = "signInWithOtp" /\ call.shouldCreateUser

\* C16: every signInWithOtp call of a login send or resend asks the provider not
\* to create a user, every one of a signup send or resend asks it to allow
\* creation, and no step of a login send or resend adds a user
C16_LoginNeverProvisions ==
  [][ /\ \A i \in 1 .. Len(providerCalls') :
           /\ svcFn' \in LoginSends => LoginDispatch(providerCalls'[i])
           /\ svcFn' \in SignupSends => SignupDispatch(providerCalls'[i])
      /\ svcFn' \in LoginSends => authUsers' = authUsers ]_vars

\* a login resend for a known identifier went through, and a user exists whom
\* only a signup send can have created
C16_witness ==
  /\ svcFn \in LoginSends /\ svcResend /\ svcOutcome = "resolved"
  /\ Len(providerCalls) = 1 /\ LoginDispatch(providerCalls[1])
  /\ DOMAIN authUsers # {}


-----------------------------------------------------------------------------
(* Properties of the signup page (specification Spec)                       *)

\* the form is shown and no handler runs: the only thing that can happen is a submit
FormEntry == page = "signup" /\ ~showOTPVerification /\ pc = "idle"

\* the local rules: product ID and name not empty, email of the shape
\* local@domain.tld, phone of exactly 10 digits, password of 6 characters at
\* least, confirmation equal to the password
LocalRulesPass(form) ==
  /\ trim(form.productId) # ""
  /\ trim(form.name) # ""
  /\ emailRegex(form.email)
  /\ Len(form.mobileNumber) = 10 /\ AllIn(form.mobileNumber, Digits)
  /\ Len(form.password) >= 6
  /\ form.confirmPassword = form.password

\* C17: a submit starts the product validation call only when the submitted
\* form passes every local rule; otherwise the page stays in form entry, nothing
\* is staged in memory or in localStorage, and the toast shows the first entry
\* of the ordered list of violations. Data is staged only for a form that passed
C17_LocalRulesBeforeNetwork ==
  [][ /\ FormEntry =>
           IF LocalRulesPass(formData')
             THEN pc' = "validateProductId" /\ hForm' = formData'
             ELSE /\ FormEntry'
                  /\ ~signupIsLoading'
                  /\ tempUserData' = tempUserData /\ localStorage' = localStorage
                  /\ validateForm(formData') # << >>
                  /\ toast' = Toast("common.error", validateForm(formData')[1])
      /\ (pc' = "validateProductId" \/ (showOTPVerification' /\ ~showOTPVerification))
           => LocalRulesPass(formData') ]_vars

\* a form that violates one rule only was turned down, nothing staged
C17_witness ==
  /\ FormEntry /\ tempUserData = NULL /\ localStorage = NULL
  /\ formData.password # formData.confirmPassword /\ Len(validateForm(formData)) = 1
  /\ toast = Toast("common.error", "Passwords do not match")


InvalidProductId ==
  Toast("auth.signupFailed", "Invalid Product ID. Please check your Product ID and try again.")

\* C18: a product validation that does not end in staging (ID not in the table,
\* product inactive, query error, thrown exception) always surfaces the same
\* Invalid Product ID error, leaves nothing staged in memory or in localStorage
\* and puts the page back in form entry with the loading flag off; and an ID
\* that is not an active product never leads to staging
C18_NegativeValidationUniform ==
  [][ pc = "validateProductId" =>
        /\ hForm.productId \notin ActiveProducts => ~showOTPVerification'
        /\ ~showOTPVerification' =>
             /\ toast' = InvalidProductId
             /\ tempUserData' = NULL /\ localStorage' = NULL
             /\ FormEntry' /\ ~signupIsLoading' ]_vars

\* the validation of an inactive product has failed
C18_witness ==
  /\ FormEntry /\ formData.productId \in InactiveProducts
  /\ toast = InvalidProductId /\ tempUserData = NULL /\ localStorage = NULL


-----------------------------------------------------------------------------
(* Properties of the OTP view (specification Spec)                           *)

\* the OTP view is shown: method selection (Staged), code entry (OtpPending)
Staged == page = "signup" /\ showOTPVerification /\ ~otpSent
OtpPending == page = "signup" /\ showOTPVerification /\ otpSent

\* the identifier the send in flight is for
SendIdentifier ==
  IF hMethod = "email" THEN hData.email ELSE formatPhoneForSignup(ComponentPhone(hData))

\* C19: when the send started from the method selection settles (the view still
\* mounted), either it failed, and the view stays on the method selection with
\* the 'Failed to Send OTP' toast, the loading flag off and the countdown as it
\* was, or it succeeded, and the view shows the code entry with the countdown at
\* 60; the code entry is entered by no other step than a send whose code was
\* issued for the identifier
C19_SendOutcome ==
  [][ /\ (pc = "sendOTP" /\ pc' = "idle" /\ ~hOrphan /\ Staged) =>
           /\ ~isLoading'
           /\ IF toast'.title = "OTP Sent"
                THEN OtpPending' /\ countdown' = 60 /\ SendIdentifier \in otpIssued'
                ELSE /\ Staged'
                     /\ toast'.title = "Failed to Send OTP"
                     /\ countdown' = countdown
                     /\ otpIssued' = otpIssued
      /\ (~otpSent /\ otpSent') =>
           /\ pc = "sendOTP" /\ pc' = "idle"
           /\ toast'.title = "OTP Sent"
           /\ SendIdentifier \in otpIssued' ]_vars

\* a send has failed and the view is still on the method selection
C19_witness ==
  /\ Staged /\ pc = "idle" /\ ~isLoading
  /\ toast.title = "Failed to Send OTP" /\ countdown = 0

\* C20: "Change verification method" goes from the code entry back to the
\* method selection and changes nothing but the entered code, the sent flag
\* and the countdown (the staged data in memory and in localStorage stay);
\* the back button clears the staged data in memory and the record in
\* localStorage and shows the form again
C20_ChangeMethodKeepsBackClears ==
  [][ /\ (OtpPending /\ Staged') =>
           /\ otp' = "" /\ countdown' = 0
           /\ tempUserData' = tempUserData /\ localStorage' = localStorage
           /\ UNCHANGED << page, formData, signupIsLoading, toast, selectedMethod,
                           isLoading, pc, hForm, handlerLocals, backend, clock >>
      /\ (page = "signup" /\ showOTPVerification /\ ~showOTPVerification' /\ page' = "signup") =>
           /\ tempUserData' = NULL /\ localStorage' = NULL
           /\ ~signupIsLoading' ]_vars

\* the method was changed after a code had been sent: the view is back on the
\* method selection with the staged data in memory and in localStorage
C20_witness ==
  /\ Staged /\ pc = "idle" /\ toast.title = "OTP Sent" /\ countdown = 0
  /\ ToString(localStorage) = ToString(tempUserData) /\ tempUserData.email \in otpIssued

\* C21: every step that takes the flow to Complete is the end of a reconciliation
\* call: the handler stands after the last call of completeSignupAfterOTP, which it
\* made for the user returned by verification and with the data staged when the
\* code was submitted, and at least one upsert was attempted.
C21_CompleteOnlyAfterReconciliation ==
  [][(page = "signup" /\ Completed')
     => (/\ pc = "getUser"
         /\ verifyData \in DOMAIN authUsers
         /\ attempt >= 1)]_vars

PhoneViolates(tbl, id, p) ==
  /\ p.phone_number # NULL
  /\ \/ ~PhoneFormatOk(p.phone_number)
     \/ \E o \in DOMAIN tbl : o # id /\ tbl[o].phone_number = p.phone_number

\* C23: when an upsert of the reconciliation reaches the table with a phone number
\* that violates the table's constraints, the user's row exists afterwards with
\* the payload's name and email and without a phone number.
C23_PhoneViolationKeepsRestOfRow ==
  [][(/\ pc = "upsert"
      /\ << pc, attempt >>' # << pc, attempt >>
      /\ profileError' # "request failed"
      /\ PhoneViolates(user_profiles, verifyData, payload'))
     => (/\ verifyData \in DOMAIN user_profiles'
         /\ user_profiles'[verifyData].full_name = payload'.full_name
         /\ user_profiles'[verifyData].email = payload'.email
         /\ user_profiles'[verifyData].phone_number = NULL)]_vars

\* C24: once the user went back while a send or verify call was outstanding, no
\* later step of that handler starts or continues the reconciliation or navigates
\* away from the signup page.
C24_LateResponseMutatesNothing ==
  [][hOrphan => (/\ pc' \notin {"updateUser", "upsert", "getUser"}
                 /\ page' = page)]_vars

\* a product-validation, verify or reconciliation call of the handler is outstanding
CallOutstanding == pc \in {"validateProductId", "verifyOTP", "updateUser", "upsert", "getUser"}

\* C25: while such a call is outstanding, a step that is not the call's own
\* progress (the handler stays where it is) changes nothing the user controls: the
\* OTP view stays shown or hidden and the method, the sent flag and the entered
\* code keep their values.
C25_NoInputWhileCallOutstanding ==
  [][(CallOutstanding /\ pc' = pc /\ attempt' = attempt)
     => UNCHANGED << showOTPVerification, selectedMethod, otpSent, otp >>]_vars

-----------------------------------------------------------------------------
(* Properties of the login page (specification SpecLogin)                    *)

\* the input is a mobile number as the form accepts it: exactly 10 digits
TenDigits(input) == Len(input) = 10 /\ AllIn(input, Digits)

\* the input is one the page lets through to sign-in
Routable(input, pw) ==
  /\ pw # ""
  /\ \/ includes(input, "@") /\ emailRegex(input)
     \/ ~includes(input, "@") /\ TenDigits(input)

-----------------------------------------------------------------------------
(* Properties of the staging record (specification Spec)                     *)

\* localStorage has no 'tempUserData' item
NoStagingRecord == ToString(localStorage) = ToString(NULL)

\* C27: when the flow is at Complete, when it is back at the form with no handler
\* running, and when the router has left the signup page, localStorage holds no
\* staging record.
C27_RecordOnlyDuringAttempt ==
  (page # "signup" \/ FormEntry) => NoStagingRecord

-----------------------------------------------------------------------------
(* Properties of the error classification (specification SpecCall)           *)

\* the message patterns of the catch block of a signup send or of verifyOTP
Patterns(fn) ==
  CASE fn = "sendEmailOTPForSignup" ->
         {"Signups not allowed", "User already registered", "Failed to fetch"}
    [] fn = "sendPhoneOTPForSignup" ->
         {"Signups not allowed", "User already registered", "SMS provider", "Failed to fetch"}
    [] fn = "verifyOTP" ->
         {"Token has expired", "Invalid token", "Email not confirmed", "Phone not confirmed",
          "Failed to fetch"}

MatchesPattern(fn, error) ==
  \/ \E p \in Patterns(fn) : includes(error.message, p)
  \/ error.name = "AuthRetryableFetchError"

\* the provider's answer carries an error and the call ends with it
ProviderFailure ==
  /\ svcFn \in Wrapped
  /\ svcPc = "provider"
  /\ svcPc' = "settled"
  /\ answers'[Len(answers')] # NoError

TokenExpired == NewError("OTP has expired. Please request a new one.")
InvalidToken == NewError("Invalid OTP code. Please check and try again.")

\* the named patterns choose the domain error `surfaced` of the failure `last`
NamedPatternsClassify(surfaced, last) ==
  /\ surfaced.name = "Error"
  /\ surfaced.message # ""
  /\ (svcFn = "verifyOTP" /\ includes(last.message, "Token has expired"))
       => surfaced = TokenExpired
  /\ (svcFn = "verifyOTP" /\ ~includes(last.message, "Token has expired")
                          /\ includes(last.message, "Invalid token"))
       => surfaced = InvalidToken
  /\ (includes(last.message, "Failed to fetch")
        /\ \A p \in Patterns(svcFn) \ {"Failed to fetch"} : ~includes(last.message, p))
       => surfaced = NetworkConnectionFailed

-----------------------------------------------------------------------------
(* Properties of the identities created (specification Spec)                 *)

\* C29: when the signup is complete, the provider has created one user during it:
\* sign-in with shouldCreateUser was accepted for one identifier only, also when
\* the method was changed between the sends.
C29_OneUserPerCompletedSignup ==
  Completed => Cardinality(DOMAIN authUsers) = 1

-----------------------------------------------------------------------------
(* Properties of the resend cooldown (specification SpecView)                *)

\* a send or a resend is issued in this step
DispatchIssued ==
  \/ pc # "sendOTP" /\ pc' = "sendOTP"
  \/ rpc # "resendOTP" /\ rpc' = "resendOTP"

\* C30: no send and no resend is issued while the countdown started by the last
\* successful dispatch has not been run down to 0 by the timer.
C30_NoDispatchDuringCooldown ==
  [][DispatchIssued => ~cooling]_vars

\* C31: whenever the OTP view is shown, localStorage holds a staging record and
\* it equals the staged data in memory; a setItem that fails keeps the flow from
\* reaching the OTP view.
C31_RecordPersistedWhileStaged ==
  (page = "signup" /\ showOTPVerification)
    => (~NoStagingRecord /\ localStorage = tempUserData)

(***************************************************************************)
(* The resend countdown (specification SpecViewFair)                       *)

\* a step of the one-second timer: countdown changes and no handler moves
TimerTick == countdown' # countdown /\ UNCHANGED << pc, rpc, otpSent >>

\* a resend call is issued
ResendIssued == rpc # "resendOTP" /\ rpc' = "resendOTP"

\* C32: the countdown stays in 0..60; a timer tick happens only while it is
\* positive and lowers it by exactly 1; a resend is issued only when it is 0 and
\* no resend is outstanding; and a positive countdown is eventually run down to 0.
C32_CountdownRunsDown ==
  /\ [](countdown \in 0..60)
  /\ [][TimerTick => (countdown > 0 /\ countdown' = countdown - 1)]_vars
  /\ [][ResendIssued => (countdown = 0 /\ ~isResending)]_vars
  /\ (countdown > 0 ~> countdown = 0)

\* the countdown of a dispatch has run down and the resend button is enabled again
C32_witness == otpSent /\ countdown = 0 /\ ~isResending /\ otpIssued # {}

(***************************************************************************)
(* A verification that fails (specification Spec)                          *)

\* otpService.verifyOTP settled with an error and the handler ran its catch and
\* finally blocks
VerifyFails == pc = "verifyOTP" /\ pc' = "idle" /\ toast'.title = "Verification Failed"

\* C37: a verifyOTP call that fails leaves the flow where it was and leaves the
\* staged data, the staging record, the selected method, the code typed, the
\* sent flag and the countdown unchanged; the view that issued the call has its
\* loading flag reset.
C37_FailedVerifyKeepsAttempt ==
  [][VerifyFails =>
       /\ UNCHANGED << page, showOTPVerification, tempUserData, localStorage,
                       selectedMethod, otp, otpSent, countdown >>
       /\ (~hOrphan => (page' = "signup" /\ showOTPVerification' /\ ~isLoading'))]_vars

\* the OTP view after a rejected code: the code is still in the field and the
\* Verify button is enabled again
C37_witness ==
  /\ page = "signup" /\ showOTPVerification /\ otpSent
  /\ toast.title = "Verification Failed"
  /\ pc = "idle" /\ ~isLoading /\ Len(otp) = 6
  /\ ~NoStagingRecord /\ localStorage = tempUserData

(***************************************************************************)
(* The channel a code is verified on (specification Spec)                  *)

\* the identifier verifyOTP submits for the method its handler captured
VerifyIdentifier == IF hMethod = "email" THEN hData.email ELSE ComponentPhone(hData)

\* C34: a verifyOTP call is submitted only for a channel and identifier to which
\* a code has been dispatched; choosing the other method while the send call is
\* outstanding does not change that.
C34_VerifyTargetsDispatchedChannel ==
  pc = "verifyOTP" => UserOf(hMethod, VerifyIdentifier) # {}

(***************************************************************************)
(* Resending while a code is being verified (specification SpecOtpView)    *)

\* C35: no send and no resend is issued while a verifyOTP call is outstanding.
C35_NoDispatchWhileVerifying ==
  [][DispatchIssued => pc # "verifyOTP"]_vars

(***************************************************************************)
(* The credential of the user a signup creates (specification Spec)        *)

\* C33: when the signup is complete, the user the provider holds for it has
\* the password typed in the form as its credential.
C33_UserCarriesStagedPassword ==
  Completed => \A u \in DOMAIN authUsers : authUsers[u].encrypted_password = hData.password

(***************************************************************************)
(* Numbers the form accepts, on the phone channel (specification SpecPhone) *)

\* the signup form filled in with a mobile number as typed
FormWithMobile(typed) ==
  [productId |-> "AGRICURE-001", name |-> "Asha", mobileNumber |-> typed,
   email |-> "asha@farm.in", password |-> "secret1", confirmPassword |-> "secret1"]

\* the phone string the OTP view passes for that form once it is staged
StagedPhone(typed) == ComponentPhone(TempData(handleChange(FormWithMobile(typed))))

\* C36: for every mobile number with which the form passes validateForm,
\* sendPhoneOTPForSignup called with the staged number does not fail with
\* 'Invalid phone number format'.
C36_AcceptedNumberUsableOnPhoneChannel ==
  \A typed \in MobileNumbers \cup OtherBodies :
    ( /\ validateForm(handleChange(FormWithMobile(typed))) = << >>
      /\ phoneIn = StagedPhone(typed)
      /\ round = 0 /\ intent = "signup" )
    => phoneOut # "InvalidPhoneFormat"

(***************************************************************************)
(* The trigger on auth.users (specification SpecTrigger)                   *)

\* C38: for every user that can be inserted and every state of the profile
\* table, handle_new_user returns without raising, leaves the rows of the other
\* users as they are and adds at most the row of the inserted user.
C38_TriggerNeverAborts ==
  \A new \in TriggerUsers :
    LET trig == handle_new_user(user_profiles, new, clock)
    IN /\ ~trig.raised
       /\ DOMAIN trig.tbl \subseteq DOMAIN user_profiles \cup {new.id}
       /\ \A o \in DOMAIN user_profiles : trig.tbl[o] = user_profiles[o]

\* two users were inserted with the same phone number in their metadata: the
\* profile of the second was created without the phone, and both users exist
C38_witness ==
  /\ DOMAIN authUsers = TriggerIds
  /\ authUsers["u1"].raw_user_meta_data.phone_number = "+917877059117"
  /\ authUsers["u2"].raw_user_meta_data.phone_number = "+917877059117"
  /\ DOMAIN user_profiles = TriggerIds
  /\ \E a, b \in TriggerIds :
       /\ user_profiles[a].phone_number = "+917877059117"
       /\ user_profiles[b].phone_number = NULL

(***************************************************************************)
(* Rendering the OTP view (specification SpecMask)                         *)

\* C39: whenever the OTP view is shown, maskEmail of the staged email is defined:
\* the count it passes to repeat is not negative.
C39_MaskEmailDefinedWhenStaged ==
  (page = "signup" /\ showOTPVerification) => maskEmail(tempUserData.email) # NULL

=============================================================================
